---- MODULE Spec2Model ----
(***************************************************************************)
(* Model of the text-generation core of laptop_backend/ai/inference:       *)
(*   cache_manager.py  KVCacheManager (get / put / clear)                  *)
(*   npu_engine.py     NPUInferenceEngine (singleton, generate)            *)
(*   gemini_engine.py  GeminiEngine (singleton, generate, clear_cache)     *)
(*   ollama_engine.py  OllamaEngine (same shape as GeminiEngine)           *)
(*                                                                         *)
(* Sizes are exact byte counts; the code's "/ (1024 * 1024)" conversion to *)
(* megabytes is exact in binary floating point for every size used here,   *)
(* so "current_size_mb > max_cache_size_mb" is modelled as                 *)
(* bytes > max_cache_size_mb * MiB.                                        *)
(***************************************************************************)
EXTENDS Integers, Sequences, FiniteSets, TLC

VARIABLES
    \* ---- KVCacheManager fields (cache_manager.py:26-29)
    max_cache_size_mb,  \* configured budget in megabytes
    cache,              \* the dict, as the sequence of its items in insertion order
    cache_hits,
    cache_misses,
    \* ---- history of the sequential KVCacheManager runs
    fifo,               \* keys in the order in which they became live
    lastOp,             \* what the last completed cache operation did
    \* ---- one engine, used by one caller at a time
    kind,               \* "npu", "gemini" or "ollama"
    session,            \* NPU: TRUE when self.session is an InferenceSession
    _cache,             \* Gemini / Ollama self._cache, items in insertion order
    _cache_hits,
    _cache_misses,
    \* ---- history of the generate calls
    watch,              \* one successful cached request, and the text it returned
    last,               \* what the last completed generate call did
    reqs,               \* the requests the callers of this run issue
    \* ---- threads that use the engine class and its caches concurrently
    pc,                 \* per thread: the statement it executes next
    frame,              \* per thread: its local variables
    _lock,              \* cls._lock: 0 when free, else the thread holding it
    _instance,          \* cls._instance: 0 for None, else the object
    _initialized,       \* per object: "unset", "False" or "True"
    env_api_key,        \* whether GEMINI_API_KEY is set
    created,            \* objects created by super().__new__
    initRuns,           \* executions of the __init__ body begun
    replaced,           \* a non-empty self._cache was replaced by a new dict
    lookups             \* cache lookups completed

cacheVars == <<max_cache_size_mb, cache, cache_hits, cache_misses>>
histVars == <<fifo, lastOp>>
engineVars == <<kind, session, _cache, _cache_hits, _cache_misses>>
callVars == <<watch, last, reqs>>
threadVars == <<pc, frame, _lock, _instance, _initialized, env_api_key,
                created, initRuns, replaced, lookups>>

\* ------------------------------------------------------------------------
\* Bounds of the model
\* ------------------------------------------------------------------------
NumKeys == 3        \* distinct cache keys offered to the KVCacheManager
MaxBlobMB == 2      \* largest array put into the KVCacheManager, in MiB
MaxBudgetMB == 2    \* largest configured max_cache_size_mb
NumThreads == 2     \* threads using the engine concurrently
OpsPerThread == 2   \* cache calls each concurrent thread makes
MaxLookups == 3     \* lookups (hits + misses) counted before the model stops
RequestsPerRun == 2  \* distinct requests the callers of one run issue
max_new_tokens_env == 2   \* MAX_NEW_TOKENS of the environment (decode steps)
max_context_length == 2   \* MAX_CONTEXT_LENGTH of the environment (padding)
MaxVocab == 3       \* largest vocabulary the sampler is given
ProbScale == 5      \* probabilities and top_p are counted in 1/ProbScale

\* ------------------------------------------------------------------------
\* Program constants
\* ------------------------------------------------------------------------
MiB == 1048576      \* 1024 * 1024, bytes per megabyte
temperature_default == 7    \* TEMPERATURE default "0.7", in tenths
top_p_default == 9          \* TOP_P default "0.9", in tenths
kv_cache_size_default == 512  \* KV_CACHE_SIZE_MB default
eos_token_id == 0           \* the tokenizer's end-of-sequence (and pad) token
simulation_label == 99      \* the "[SIMULATION MODE]" head of the mock text
validate_max_new_tokens == 800        \* plan validation: max_new_tokens
validate_temperature == 5             \* plan validation: temperature 0.5
adjust_max_new_tokens == 1500         \* plan adjustment: max_new_tokens
adjust_workout_max_new_tokens == 800  \* workout adjustment: max_new_tokens
adjust_nutrition_max_new_tokens == 1000  \* nutrition adjustment
adjust_temperature == 7               \* every adjustment: temperature 0.7
health_test_prompt == 3     \* "Hello, this is a health check test."
health_max_new_tokens == 10 \* health_check: max_new_tokens
health_say_ok_prompt == 4   \* "Say 'OK' if you are working."

None == "None"

\* ------------------------------------------------------------------------
\* Python dict, kept as a sequence of [key, value] items in insertion order
\* ------------------------------------------------------------------------
DictKeys(d) == {d[i].key : i \in 1..Len(d)}

DictIndex(d, k) == CHOOSE i \in 1..Len(d) : d[i].key = k

\* d[k]
DictGet(d, k) == d[DictIndex(d, k)].value

\* d[k] = v, mutated: the key always goes last
DictSetLast(d, k, v) ==
    Append(SelectSeq(d, LAMBDA item : item.key # k), [key |-> k, value |-> v])

\* d[k] = v, mutated: an existing key keeps its value
DictSetKeepsOld(d, k, v) ==
    IF k \in DictKeys(d) THEN d ELSE Append(d, [key |-> k, value |-> v])

\* d[k] = v : an existing key keeps its position, a new key goes last
DictSet(d, k, v) ==
    IF k \in DictKeys(d)
    THEN [d EXCEPT ![DictIndex(d, k)] = [key |-> k, value |-> v]]
    ELSE Append(d, [key |-> k, value |-> v])

\* del d[k]
DictDel(d, k) ==
    LET i == DictIndex(d, k)
    IN  SubSeq(d, 1, i - 1) \o SubSeq(d, i + 1, Len(d))

\* next(iter(d)), mutated: the most recently inserted item
NewestIndex(d) == Len(d)

\* next(iter(d)): the first item in insertion order
OldestIndex(d) == 1

RECURSIVE SumBytes(_)
\* sum(v.nbytes for v in self.cache.values())
SumBytes(d) ==
    IF d = <<>> THEN 0 ELSE Head(d).value.nbytes + SumBytes(Tail(d))

\* ------------------------------------------------------------------------
\* KVCacheManager
\* ------------------------------------------------------------------------
\* An np.ndarray: its contents and its nbytes
Blob(data, nbytes) == [data |-> data, nbytes |-> nbytes]

\* Python's None where an array is expected
NoBlob == Blob(None, 0)

CacheKeys == {<<i>> : i \in 1..NumKeys}
Blobs == {Blob(d, n * MiB) : d \in {"x", "y"}, n \in 1..MaxBlobMB}

\* KVCacheManager.get, mutated: the membership test never succeeds
KVGetMiss(d, hits, misses, k) ==
    [found |-> FALSE, ret |-> NoBlob, cache |-> d,
     hits |-> hits, misses |-> misses + 1]

\* KVCacheManager.get: the returned array (None on a miss) and the counters
KVGet(d, hits, misses, k) ==
    IF k \in DictKeys(d)
    THEN [found |-> TRUE, ret |-> DictGet(d, k), cache |-> d,
          hits |-> hits + 1, misses |-> misses]
    ELSE [found |-> FALSE, ret |-> NoBlob, cache |-> d,
          hits |-> hits, misses |-> misses + 1]

RECURSIVE EvictLoop(_, _, _, _)
\* the while loop of KVCacheManager.put: current is current_size_mb in bytes
EvictLoop(d, current, budget_mb, evicted) ==
    IF current > budget_mb * MiB /\ d # <<>>
    THEN LET oldest == d[OldestIndex(d)]
         IN  EvictLoop(DictDel(d, oldest.key),
                       current - oldest.value.nbytes,
                       budget_mb,
                       Append(evicted, oldest.key))
    ELSE [cache |-> d, current |-> current, evicted |-> evicted]

\* KVCacheManager.put, mutated: an array larger than the whole budget is
\* not stored
KVPutSkipsOversized(d, budget_mb, k, v) ==
    LET loop == EvictLoop(d, SumBytes(d), budget_mb, <<>>)
    IN  [cache |-> IF v.nbytes > budget_mb * MiB THEN loop.cache
                   ELSE DictSet(loop.cache, k, v),
         evicted |-> loop.evicted]

\* KVCacheManager.put, mutated: the eviction loop starts from the size held
\* plus the size of the new value
KVPutCountsNew(d, budget_mb, k, v) ==
    LET loop == EvictLoop(d, SumBytes(d) + v.nbytes, budget_mb, <<>>)
    IN  [cache |-> DictSet(loop.cache, k, v), evicted |-> loop.evicted]

\* KVCacheManager.put: the dict after the call and the keys it evicted
KVPut(d, budget_mb, k, v) ==
    LET loop == EvictLoop(d, SumBytes(d), budget_mb, <<>>)
    IN  [cache |-> DictSet(loop.cache, k, v), evicted |-> loop.evicted]

\* ------------------------------------------------------------------------
\* Requests and results of generate
\* ------------------------------------------------------------------------
\* An Optional[...] argument: Nothing is Python's None
Some(x) == [some |-> TRUE, v |-> x]
Nothing == [some |-> FALSE, v |-> 0]

\* Python's "x or d": None and 0 both give the default
OrDefault(x, d) == IF x.some /\ x.v # 0 THEN x.v ELSE d

Max(a, b) == IF a >= b THEN a ELSE b

\* The requests offered to generate, as <<prompt, max_new_tokens,
\* temperature, top_p>>. Temperatures and top_p values are counted in tenths
\* (7 is 0.7): two prompts with every optional argument left out, and the
\* first prompt with max_new_tokens=1, temperature=-1.0, temperature=0 and
\* top_p=0.5.
Requests ==
    {<<1, Nothing, Nothing, Nothing>>,
     <<2, Nothing, Nothing, Nothing>>,
     <<1, Some(1), Nothing, Nothing>>,
     <<1, Nothing, Some(0 - 10), Nothing>>,
     <<1, Nothing, Some(0), Nothing>>,
     <<1, Nothing, Nothing, Some(5)>>}

\* A Python argument value: None, an int, a float, the float nan, or a str.
\* v is the number (temperatures and top_p values in tenths), 0 otherwise.
PyNone == [type |-> "None", v |-> 0]
PyInt(n) == [type |-> "int", v |-> n]
PyFloat(n) == [type |-> "float", v |-> n]
PyNaN == [type |-> "nan", v |-> 0]
PyStr == [type |-> "str", v |-> 0]
\* the argument a caller passes for the optional x of a request
PyArg(x, type) == IF x.some THEN [type |-> type, v |-> x.v] ELSE PyNone

\* isinstance(x, int) and isinstance(x, (int, float))
IsInt(x) == x.type = "int"
IsNumber(x) == x.type \in {"int", "float", "nan"}
\* x <= c, x > c and c < x on numbers: every comparison with nan is False
PyLe(x, c) == x.type # "nan" /\ x.v <= c
PyGt(x, c) == x.type # "nan" /\ x.v > c
PyLt(c, x) == x.type # "nan" /\ c < x.v

Invalid(error) == [is_valid |-> FALSE, error |-> error]
\* validate_generation_params (model_utils.py:12-46): the tuple
\* (is_valid, error_message), with "" for the message None
validate_generation_params(max_new_tokens, temperature, top_p) ==
    IF max_new_tokens # PyNone
       /\ (~IsInt(max_new_tokens) \/ PyLe(max_new_tokens, 0))
    THEN Invalid("max_new_tokens must be a positive integer")
    ELSE IF max_new_tokens # PyNone /\ PyGt(max_new_tokens, 2048)
    THEN Invalid("max_new_tokens cannot exceed 2048")
    ELSE IF temperature # PyNone
            /\ (~IsNumber(temperature) \/ PyLe(temperature, 0))
    THEN Invalid("temperature must be a positive number")
    ELSE IF temperature # PyNone /\ PyGt(temperature, 20)
    THEN Invalid("temperature should not exceed 2.0 for stable generation")
    ELSE IF top_p # PyNone /\ ~IsNumber(top_p)
    THEN Invalid("top_p must be a number")
    ELSE IF top_p # PyNone /\ ~(PyLt(0, top_p) /\ PyLe(top_p, 10))
    THEN Invalid("top_p must be between 0 and 1")
    ELSE [is_valid |-> TRUE, error |-> ""]

\* whether validate_generation_params accepts the arguments of request a
ValidRequest(a) ==
    validate_generation_params(PyArg(a[2], "int"), PyArg(a[3], "float"),
                               PyArg(a[4], "float")).is_valid

\* A text is the sequence of its characters; every non-special token decodes
\* to one character, named by the token id.
Ok(text, calls, failStep) ==
    [status |-> "ok", text |-> text, error |-> "", calls |-> calls,
     failStep |-> failStep]
\* "raise" in the except branches of generate, mutated: the exception is
\* swallowed and an empty text returned
ErrSwallowed(error, calls) ==
    [status |-> "ok", text |-> <<>>, error |-> "", calls |-> calls,
     failStep |-> 0 - 1]

\* generate raises: "raise" / "raise RuntimeError(error_msg)" in the except
\* branches (gemini_engine.py:170-172, ollama_engine.py:162-173)
Err(error, calls) ==
    [status |-> "error", text |-> <<>>, error |-> error, calls |-> calls,
     failStep |-> 0 - 1]

\* the "if use_cache:" tests of generate, mutated: the cache is always used
CacheAlwaysEnabled(use_cache) == TRUE

\* the "if use_cache:" tests of generate (npu_engine.py:287, 297, 353;
\* gemini_engine.py:125, 160; ollama_engine.py:120, 153)
CacheEnabled(use_cache) == use_cache

\* ------------------------------------------------------------------------
\* NPUInferenceEngine.generate
\* ------------------------------------------------------------------------
\* np.array(text): a 0-d unicode array, 4 bytes per character, at least one
ArrayOfText(text) == Blob(text, 4 * Max(1, Len(text)))

\* f"{prompt}_{max_new_tokens}_{temperature}_{top_p}": the three numeric
\* fields contain no "_", so the string determines the four values
NPUCacheKey(prompt, max_new_tokens, temperature, top_p) ==
    <<prompt, max_new_tokens, temperature, top_p>>

\* self.tokenizer(prompt, padding="max_length"): the prompt's token followed
\* by pad tokens (the pad token is the eos token, npu_engine.py:171-172)
Tokenize(prompt) ==
    <<prompt>> \o [i \in 1..(max_context_length - 1) |-> eos_token_id]

\* self.tokenizer.decode(ids, skip_special_tokens=True)
Decode(ids) == SelectSeq(ids, LAMBDA t : t # eos_token_id)

\* _generate_mock_response, mutated: the prompt without the label
MockResponseUnlabelled(prompt) == <<prompt>>

\* _generate_mock_response: the labelled placeholder, which quotes the prompt
MockResponse(prompt) == <<simulation_label, prompt>>

\* "production" if self.session else "simulation" (npu_engine.py:397, 421)
Mode(sess) == IF sess THEN "production" ELSE "simulation"

\* "if next_token == self.tokenizer.eos_token_id", mutated: never true
IsEosNever(token) == FALSE

\* "if next_token == self.tokenizer.eos_token_id" (npu_engine.py:323)
IsEos(token) == token = eos_token_id

\* What one iteration of the decode loop meets: session.run or _sample_token
\* raises, or a token is sampled
ScoreFails == [ok |-> FALSE, token |-> 0]
Sampled(t) == [ok |-> TRUE, token |-> t]
StepOutcomes == {ScoreFails} \cup {Sampled(t) : t \in {eos_token_id, 1}}
\* what the scoring collaborator does during one call that loops at most
\* max_new_tokens times: the steps up to the one that ends the loop
Scripts(max_new_tokens) ==
    IF max_new_tokens <= 0 THEN {<<>>}
    ELSE UNION {{s \in [1..n -> StepOutcomes] :
                    /\ \A i \in 1..(n - 1) : s[i] = Sampled(1)
                    /\ n < max_new_tokens => s[n] # Sampled(1)} :
                n \in 1..max_new_tokens}

\* the except branch of the decode loop (npu_engine.py:342-344): log, break
FailedStep(ids, calls, step) ==
    [ids |-> ids, calls |-> calls, failStep |-> step]

RECURSIVE DecodeLoop(_, _, _, _, _)
\* for step in range(max_new_tokens): ... (npu_engine.py:309-344)
DecodeLoop(ids, script, step, max_new_tokens, calls) ==
    IF step >= max_new_tokens
    THEN [ids |-> ids, calls |-> calls, failStep |-> 0 - 1]
    ELSE IF ~script[step + 1].ok
         THEN FailedStep(ids, calls + 1, step)
         ELSE LET next_token == script[step + 1].token
              IN  IF IsEos(next_token)
                  THEN [ids |-> Append(ids, next_token), calls |-> calls + 1,
                        failStep |-> 0 - 1]
                  ELSE DecodeLoop(Append(ids, next_token), script, step + 1,
                                  max_new_tokens, calls + 1)

\* NPUInferenceEngine.generate on an engine whose kv_cache is d
NPUGenerate(d, hits, misses, budget_mb, sess, prompt, mnt, temp, topp, use_cache, script) ==
    LET max_new_tokens == OrDefault(mnt, max_new_tokens_env)
        temperature == OrDefault(temp, temperature_default)
        top_p == OrDefault(topp, top_p_default)
        cache_key == NPUCacheKey(prompt, max_new_tokens, temperature, top_p)
        got == IF CacheEnabled(use_cache)
               THEN KVGet(d, hits, misses, cache_key)
               ELSE [found |-> FALSE, ret |-> NoBlob, cache |-> d,
                     hits |-> hits, misses |-> misses]
        Store(text) == IF CacheEnabled(use_cache)
                       THEN KVPut(got.cache, budget_mb, cache_key,
                                  ArrayOfText(text)).cache
                       ELSE got.cache
    IN  IF got.found
        THEN [cache |-> got.cache, hits |-> got.hits, misses |-> got.misses,
              result |-> Ok(got.ret.data, 0, 0 - 1)]
        ELSE IF ~sess
        THEN [cache |-> Store(MockResponse(prompt)), hits |-> got.hits,
              misses |-> got.misses,
              result |-> Ok(MockResponse(prompt), 0, 0 - 1)]
        ELSE LET loop == DecodeLoop(Tokenize(prompt), script, 0,
                                    max_new_tokens, 0)
                 generated_text == Decode(loop.ids)
             IN  [cache |-> Store(generated_text), hits |-> got.hits,
                  misses |-> got.misses,
                  result |-> Ok(generated_text, loop.calls, loop.failStep)]

\* ------------------------------------------------------------------------
\* GeminiEngine.generate and OllamaEngine.generate
\* ------------------------------------------------------------------------
\* _get_cache_key: md5 of f"{prompt}_{max_new_tokens}_{temperature}"; md5 is
\* taken to be injective on the strings that occur
GetCacheKey(prompt, max_new_tokens, temperature) ==
    <<prompt, max_new_tokens, temperature>>

\* the key computed in generate, mutated: top_p is part of the key
ResponseCacheKeyWithTopP(prompt, max_new_tokens, temperature, top_p) ==
    <<prompt, max_new_tokens, temperature, top_p>>

\* "cache_key = self._get_cache_key(prompt, max_new_tokens, temperature)"
\* in generate (gemini_engine.py:127, ollama_engine.py:122): top_p is not
\* handed to _get_cache_key
ResponseCacheKey(prompt, max_new_tokens, temperature, top_p) ==
    GetCacheKey(prompt, max_new_tokens, temperature)

ReplyTexts == {<<>>, <<1>>, <<2>>}

\* model.generate_content: raises, or answers with a text (possibly empty,
\* with or without prompt_feedback)
GeminiReplies ==
    {[raises |-> TRUE, text |-> <<>>, feedback |-> FALSE]}
    \cup {[raises |-> FALSE, text |-> t, feedback |-> FALSE] : t \in ReplyTexts}
    \cup {[raises |-> FALSE, text |-> <<>>, feedback |-> TRUE]}

\* requests.post: raises Timeout / ConnectionError / another exception, or
\* answers with a status code and a JSON body whose "response" may be missing
OllamaReplies ==
    {[raises |-> e, status |-> 0, text |-> <<>>] :
        e \in {"Timeout", "ConnectionError", "Exception"}}
    \cup {[raises |-> "", status |-> 500, text |-> <<>>]}
    \cup {[raises |-> "", status |-> 200, text |-> t] : t \in ReplyTexts}

\* "if not response.text", mutated: never true
NoTextNever(text) == FALSE

\* "if not response.text" (gemini_engine.py:148)
NoText(text) == text = <<>>

\* GeminiEngine.generate on an engine whose _cache is d
GeminiGenerate(d, hits, misses, prompt, mnt, temp, topp, use_cache, reply) ==
    LET max_new_tokens == OrDefault(mnt, max_new_tokens_env)
        temperature == OrDefault(temp, temperature_default)
        top_p == OrDefault(topp, top_p_default)
        cache_key == ResponseCacheKey(prompt, max_new_tokens, temperature,
                                      top_p)
        m == IF CacheEnabled(use_cache) THEN misses + 1 ELSE misses
    IN  IF CacheEnabled(use_cache) /\ cache_key \in DictKeys(d)
        THEN [cache |-> d, hits |-> hits + 1, misses |-> misses,
              result |-> Ok(DictGet(d, cache_key), 0, 0 - 1)]
        ELSE IF reply.raises
        THEN [cache |-> d, hits |-> hits, misses |-> m,
              result |-> Err("Exception", 1)]
        ELSE IF NoText(reply.text)
        THEN [cache |-> d, hits |-> hits, misses |-> m,
              result |-> Err("RuntimeError", 1)]
        ELSE [cache |-> IF CacheEnabled(use_cache)
                        THEN DictSet(d, cache_key, reply.text)
                        ELSE d,
              hits |-> hits, misses |-> m,
              result |-> Ok(reply.text, 1, 0 - 1)]

\* OllamaEngine.generate on an engine whose _cache is d
OllamaGenerate(d, hits, misses, prompt, mnt, temp, topp, use_cache, reply) ==
    LET max_new_tokens == OrDefault(mnt, max_new_tokens_env)
        temperature == OrDefault(temp, temperature_default)
        top_p == OrDefault(topp, top_p_default)
        cache_key == ResponseCacheKey(prompt, max_new_tokens, temperature,
                                      top_p)
        m == IF CacheEnabled(use_cache) THEN misses + 1 ELSE misses
    IN  IF CacheEnabled(use_cache) /\ cache_key \in DictKeys(d)
        THEN [cache |-> d, hits |-> hits + 1, misses |-> misses,
              result |-> Ok(DictGet(d, cache_key), 0, 0 - 1)]
        ELSE IF reply.raises # ""
        THEN [cache |-> d, hits |-> hits, misses |-> m,
              result |-> Err(IF reply.raises = "Exception" THEN "Exception"
                             ELSE "RuntimeError", 1)]
        ELSE IF reply.status # 200
        THEN [cache |-> d, hits |-> hits, misses |-> m,
              result |-> Err("RuntimeError", 1)]
        ELSE [cache |-> IF CacheEnabled(use_cache)
                        THEN DictSet(d, cache_key, reply.text)
                        ELSE d,
              hits |-> hits, misses |-> m,
              result |-> Ok(reply.text, 1, 0 - 1)]

\* ------------------------------------------------------------------------
\* Sequential use of one KVCacheManager
\* ------------------------------------------------------------------------
RECURSIVE Without(_, _)
\* the sequence s without the members of the set gone
Without(s, gone) ==
    IF s = <<>> THEN <<>>
    ELSE IF Head(s) \in gone THEN Without(Tail(s), gone)
         ELSE <<Head(s)>> \o Without(Tail(s), gone)

SeqSet(s) == {s[i] : i \in 1..Len(s)}

vars == <<cacheVars, histVars, engineVars, callVars, threadVars>>

\* No token has been sampled.
NoSample == [probs |-> <<>>, top_p |-> 0, sorted_indices |-> <<>>,
             cutoff_idx |-> 0, nucleus_indices |-> {}, sampled_idx |-> 0 - 1]
\* No request is being watched.
NoWatch == [some |-> FALSE, args |-> <<>>, v |-> <<>>, evicted |-> FALSE,
            others |-> FALSE, cleared |-> FALSE]
NoCall == [route |-> "", args |-> <<0, Nothing, Nothing, Nothing>>,
           use_cache |-> FALSE, valid |-> TRUE, status |-> "none",
           error |-> "", text |-> <<>>, calls |-> 0, failStep |-> 0 - 1,
           backendFailed |-> FALSE, mode |-> "", ollama_status |-> "",
           sample |-> NoSample,
           repeat |-> FALSE, afterClear |-> FALSE, hit |-> FALSE,
           cacheChanged |-> FALSE, countersChanged |-> FALSE]

Threads == 1..NumThreads

\* The locals of NPUInferenceEngine.generate before the call: sampled and
\* calls are the tokens sampled and the session.run calls made by the call,
\* source tells where the returned text came from.
NoGen == [args |-> <<0, Nothing, Nothing, Nothing>>, use_cache |-> FALSE,
          max_new_tokens |-> 0, cache_key |-> <<>>, generated_ids |-> <<>>,
          step |-> 0, next_token |-> 0, generated_text |-> <<>>,
          sampled |-> <<>>, calls |-> 0, failStep |-> 0 - 1,
          source |-> "none"]

NoFrame == [self |-> 0, key |-> <<>>, value |-> NoBlob, current |-> 0,
            oldest_key |-> <<>>, evicted_size |-> 0, tmp |-> 0, ops |-> 0,
            gen |-> NoGen]

ThreadsIdle ==
    /\ pc = [t \in Threads |-> "idle"]
    /\ frame = [t \in Threads |-> NoFrame]
    /\ _lock = 0
    /\ _instance = 0
    /\ _initialized = [o \in Threads |-> "unset"]
    /\ env_api_key = TRUE
    /\ created = 0
    /\ initRuns = 0
    /\ replaced = FALSE
    /\ lookups = 0

EngineIdle ==
    /\ reqs = {}
    /\ kind = "none"
    /\ session = FALSE
    /\ _cache = <<>>
    /\ _cache_hits = 0
    /\ _cache_misses = 0
    /\ watch = NoWatch
    /\ last = NoCall

\* No cache operation has completed. Of a put, value is the array it was
\* given, held the bytes and live the entries the store held when it was
\* called, and rank the position of the key among them (0 for a new key);
\* by is the thread that made the operation, when threads are told apart.
NoOp == [op |-> "none", key |-> <<>>, evicted |-> <<>>, oldest |-> <<>>,
         hit |-> <<>>, live |-> 0, value |-> NoBlob, held |-> 0, rank |-> 0,
         by |-> 0]

InitCache ==
    /\ max_cache_size_mb \in 1..MaxBudgetMB
    /\ cache = <<>>
    /\ cache_hits = 0
    /\ cache_misses = 0
    /\ fifo = <<>>
    /\ lastOp = NoOp
    /\ EngineIdle
    /\ ThreadsIdle

Put(k, v) ==
    LET r == KVPut(cache, max_cache_size_mb, k, v)
        kept == Without(fifo, SeqSet(r.evicted))
    IN  /\ cache' = r.cache
        /\ fifo' = IF k \in SeqSet(kept) THEN kept ELSE Append(kept, k)
        /\ lastOp' = [op |-> "put", key |-> k, evicted |-> r.evicted,
                      oldest |-> SubSeq(fifo, 1, Len(r.evicted)),
                      hit |-> lastOp.hit, live |-> Len(cache),
                      value |-> v, held |-> SumBytes(cache),
                      rank |-> IF k \in DictKeys(cache)
                               THEN DictIndex(cache, k) ELSE 0,
                      by |-> 0]
        /\ UNCHANGED <<max_cache_size_mb, cache_hits, cache_misses>>
        /\ UNCHANGED <<engineVars, callVars, threadVars>>

Get(k) ==
    LET r == KVGet(cache, cache_hits, cache_misses, k)
    IN  /\ cache_hits + cache_misses < MaxLookups
        /\ cache' = r.cache
        /\ cache_hits' = r.hits
        /\ cache_misses' = r.misses
        /\ lastOp' = [op |-> "get", key |-> k, evicted |-> <<>>, oldest |-> <<>>,
                      hit |-> IF r.found THEN k ELSE lastOp.hit,
                      live |-> Len(cache), value |-> NoBlob, held |-> 0,
                      rank |-> 0, by |-> 0]
        /\ UNCHANGED <<max_cache_size_mb, fifo>>
        /\ UNCHANGED <<engineVars, callVars, threadVars>>

\* KVCacheManager.clear
Clear ==
    /\ cache' = <<>>
    /\ cache_hits' = 0
    /\ cache_misses' = 0
    /\ fifo' = <<>>
    /\ lastOp' = [NoOp EXCEPT !.op = "clear"]
    /\ UNCHANGED max_cache_size_mb
    /\ UNCHANGED <<engineVars, callVars, threadVars>>

NextCache ==
    \/ \E k \in CacheKeys, v \in Blobs : Put(k, v)
    \/ \E k \in CacheKeys : Get(k)
    \/ Clear

SpecCache == InitCache /\ [][NextCache]_vars

\* ------------------------------------------------------------------------
\* One engine used by one caller at a time
\* ------------------------------------------------------------------------
\* The engine after a completed __init__. KV_CACHE_SIZE_MB is 0 or the
\* default for the NPU engine, which is the only one that reads it, and 0
\* for the others; the NPU session is loaded, or missing (simulation mode).
InitEngine ==
    /\ reqs \in {q \in SUBSET Requests :
                    Cardinality(q) >= 1 /\ Cardinality(q) <= RequestsPerRun}
    /\ kind \in {"npu", "gemini", "ollama"}
    /\ session \in (IF kind = "npu" THEN BOOLEAN ELSE {FALSE})
    /\ max_cache_size_mb \in
           (IF kind = "npu" THEN {0, kv_cache_size_default} ELSE {0})
    /\ cache = <<>>
    /\ cache_hits = 0
    /\ cache_misses = 0
    /\ _cache = <<>>
    /\ _cache_hits = 0
    /\ _cache_misses = 0
    /\ watch = NoWatch
    /\ last = NoCall
    /\ fifo = <<>>
    /\ lastOp = NoOp
    /\ ThreadsIdle

\* the cache key under which this engine files request a
KeyOf(a) ==
    IF kind = "npu"
    THEN NPUCacheKey(a[1], OrDefault(a[2], max_new_tokens_env),
                     OrDefault(a[3], temperature_default),
                     OrDefault(a[4], top_p_default))
    ELSE ResponseCacheKey(a[1], OrDefault(a[2], max_new_tokens_env),
                          OrDefault(a[3], temperature_default),
                          OrDefault(a[4], top_p_default))

\* The history kept of a generate call for request a that went from
\* (c, h, m) to r and evicted the keys in evicted; wkey is the cache key of
\* the watched request; backend_failed tells whether the model or backend
\* call of this request raised or answered with an error status. A
\* successful cached call may become the watched one.
Remember(a, use_cache, c, h, m, r, evicted, wkey, backend_failed) ==
    LET seen == IF ~watch.some THEN watch
                ELSE IF watch.cleared
                THEN (IF use_cache /\ KeyOf(a) = KeyOf(watch.args)
                      THEN NoWatch ELSE watch)
                ELSE [watch EXCEPT
                        !.evicted = watch.evicted \/ wkey \in evicted,
                        !.others = watch.others \/ a # watch.args]
    IN  /\ last' = [route |-> "", args |-> a, use_cache |-> use_cache,
                    backendFailed |-> backend_failed,
                    valid |-> ValidRequest(a),
                    status |-> r.result.status, error |-> r.result.error,
                    text |-> r.result.text,
                    calls |-> r.result.calls, failStep |-> r.result.failStep,
                    mode |-> "", ollama_status |-> "",
                    sample |-> NoSample,
                    repeat |-> watch.some /\ ~watch.cleared /\ watch.args = a,
                    afterClear |-> watch.some /\ watch.cleared
                                   /\ KeyOf(a) = KeyOf(watch.args),
                    hit |-> r.hits # h,
                    cacheChanged |-> r.cache # c,
                    countersChanged |-> (r.hits # h \/ r.misses # m)]
        /\ \/ watch' = seen
           \/ /\ ~watch.some
              /\ use_cache
              /\ r.result.status = "ok"
              /\ watch' = [some |-> TRUE, args |-> a, v |-> r.result.text,
                           evicted |-> FALSE, others |-> FALSE,
                           cleared |-> FALSE]
        /\ UNCHANGED <<reqs, threadVars>>

\* the keys of d that are no longer keys of e
Gone(d, e) == DictKeys(d) \ DictKeys(e)

\* the kv_cache key of the watched request
WatchedKey ==
    NPUCacheKey(watch.args[1],
                OrDefault(watch.args[2], max_new_tokens_env),
                OrDefault(watch.args[3], temperature_default),
                OrDefault(watch.args[4], top_p_default))

GenerateNPU(a, use_cache, script) ==
    LET r == NPUGenerate(cache, cache_hits, cache_misses, max_cache_size_mb,
                         session, a[1], a[2], a[3], a[4], use_cache, script)
    IN  /\ kind = "npu"
        /\ use_cache => cache_hits + cache_misses < MaxLookups
        /\ cache' = r.cache
        /\ cache_hits' = r.hits
        /\ cache_misses' = r.misses
        /\ Remember(a, use_cache, cache, cache_hits, cache_misses, r,
                    Gone(cache, r.cache),
                    IF watch.some THEN WatchedKey ELSE <<>>,
                    r.result.failStep >= 0)
        /\ UNCHANGED <<max_cache_size_mb, histVars, kind, session,
                       _cache, _cache_hits, _cache_misses>>

GenerateGemini(a, use_cache, reply) ==
    LET r == GeminiGenerate(_cache, _cache_hits, _cache_misses,
                            a[1], a[2], a[3], a[4], use_cache, reply)
    IN  /\ kind = "gemini"
        /\ use_cache => _cache_hits + _cache_misses < MaxLookups
        /\ _cache' = r.cache
        /\ _cache_hits' = r.hits
        /\ _cache_misses' = r.misses
        /\ Remember(a, use_cache, _cache, _cache_hits, _cache_misses, r, {},
                    <<>>, r.result.calls = 1 /\ reply.raises)
        /\ UNCHANGED <<cacheVars, histVars, kind, session>>

GenerateOllama(a, use_cache, reply) ==
    LET r == OllamaGenerate(_cache, _cache_hits, _cache_misses,
                            a[1], a[2], a[3], a[4], use_cache, reply)
    IN  /\ kind = "ollama"
        /\ use_cache => _cache_hits + _cache_misses < MaxLookups
        /\ _cache' = r.cache
        /\ _cache_hits' = r.hits
        /\ _cache_misses' = r.misses
        /\ Remember(a, use_cache, _cache, _cache_hits, _cache_misses, r, {},
                    <<>>,
                    /\ r.result.calls = 1
                    /\ (reply.raises # "" \/ reply.status # 200))
        /\ UNCHANGED <<cacheVars, histVars, kind, session>>

\* the watched request after a clear: it was cached before the clear
Cleared ==
    IF watch.some THEN [NoWatch EXCEPT !.some = TRUE, !.args = watch.args,
                                       !.cleared = TRUE]
    ELSE NoWatch

\* clear_cache, mutated: the counters are reset and the entries kept
ClearCacheKeepsEntries ==
    /\ kind \in {"gemini", "ollama"}
    /\ _cache_hits' = 0
    /\ _cache_misses' = 0
    /\ watch' = Cleared
    /\ last' = [NoCall EXCEPT !.status = "cleared"]
    /\ UNCHANGED <<cacheVars, histVars, kind, session, _cache, reqs,
                   threadVars>>

\* GeminiEngine.clear_cache / OllamaEngine.clear_cache
ClearCache ==
    /\ kind \in {"gemini", "ollama"}
    /\ _cache' = <<>>
    /\ _cache_hits' = 0
    /\ _cache_misses' = 0
    /\ watch' = Cleared
    /\ last' = [NoCall EXCEPT !.status = "cleared"]
    /\ UNCHANGED <<cacheVars, histVars, kind, session, reqs, threadVars>>

\* engine.kv_cache.clear() on the NPU engine
ClearKVCache ==
    /\ kind = "npu"
    /\ cache' = <<>>
    /\ cache_hits' = 0
    /\ cache_misses' = 0
    /\ watch' = Cleared
    /\ last' = [NoCall EXCEPT !.status = "cleared"]
    /\ UNCHANGED <<max_cache_size_mb, histVars, engineVars, reqs,
                   threadVars>>

\* NPUInferenceEngine.health_check: a test generate with use_cache=False;
\* an exception would give "unhealthy" (npu_engine.py:377-406). The test
\* answer ends, or a step fails, within max_new_tokens_env decode steps.
HealthCheck(script) ==
    LET r == NPUGenerate(cache, cache_hits, cache_misses, max_cache_size_mb,
                         session, health_test_prompt,
                         Some(health_max_new_tokens), Nothing, Nothing,
                         FALSE, script)
    IN  /\ kind = "npu"
        /\ cache' = r.cache
        /\ cache_hits' = r.hits
        /\ cache_misses' = r.misses
        /\ last' = [NoCall EXCEPT
                       !.route = "health_check",
                       !.status = IF r.result.status = "ok" THEN "healthy"
                                  ELSE "unhealthy",
                       !.mode = IF r.result.status = "ok" THEN Mode(session)
                                ELSE "",
                       !.text = r.result.text,
                       !.calls = r.result.calls,
                       !.failStep = r.result.failStep,
                       !.backendFailed = r.result.failStep >= 0,
                       !.cacheChanged = r.cache # cache,
                       !.countersChanged = (r.hits # cache_hits
                                            \/ r.misses # cache_misses)]
        /\ UNCHANGED <<max_cache_size_mb, histVars, engineVars, watch, reqs,
                       threadVars>>

\* NPUInferenceEngine.get_model_info (npu_engine.py:408-422)
GetModelInfo ==
    /\ kind = "npu"
    /\ last' = [NoCall EXCEPT !.route = "get_model_info", !.status = "info",
                              !.mode = Mode(session)]
    /\ UNCHANGED <<cacheVars, histVars, engineVars, watch, reqs, threadVars>>

NextEngine ==
    \/ \E a \in reqs, use_cache \in BOOLEAN :
          \E script \in Scripts(OrDefault(a[2], max_new_tokens_env)) :
              GenerateNPU(a, use_cache, script)
    \/ \E a \in reqs, use_cache \in BOOLEAN, reply \in GeminiReplies :
          GenerateGemini(a, use_cache, reply)
    \/ \E a \in reqs, use_cache \in BOOLEAN, reply \in OllamaReplies :
          GenerateOllama(a, use_cache, reply)
    \/ ClearCache
    \/ ClearKVCache

SpecEngine == InitEngine /\ [][NextEngine]_vars

\* ------------------------------------------------------------------------
\* One engine and its diagnostics: generate, health_check, get_model_info
\* ------------------------------------------------------------------------
\* The callers of these runs issue the two prompts with every optional
\* argument left out.
HealthRequests ==
    {q \in Requests : q[2] = Nothing /\ q[3] = Nothing /\ q[4] = Nothing}

InitHealth ==
    /\ reqs = HealthRequests
    /\ kind \in {"npu", "gemini", "ollama"}
    /\ session \in (IF kind = "npu" THEN BOOLEAN ELSE {FALSE})
    /\ max_cache_size_mb \in
           (IF kind = "npu" THEN {0, kv_cache_size_default} ELSE {0})
    /\ cache = <<>>
    /\ cache_hits = 0
    /\ cache_misses = 0
    /\ _cache = <<>>
    /\ _cache_hits = 0
    /\ _cache_misses = 0
    /\ watch = NoWatch
    /\ last = NoCall
    /\ fifo = <<>>
    /\ lastOp = NoOp
    /\ ThreadsIdle

\* The report of a health_check whose test generate went from (c, h, m) to
\* r; probe_failed tells whether a request made before the test generate
\* raised, in which case the test generate was not made.
HealthReport(c, h, m, r, probe_failed, status_word) ==
    /\ last' = [NoCall EXCEPT
                   !.route = "health_check",
                   !.status = IF r.result.status = "ok" THEN "healthy"
                              ELSE "unhealthy",
                   !.error = r.result.error,
                   !.text = r.result.text,
                   !.calls = r.result.calls,
                   !.backendFailed = (probe_failed \/ r.result.status # "ok"),
                   !.ollama_status = status_word,
                   !.cacheChanged = r.cache # c,
                   !.countersChanged = (r.hits # h \/ r.misses # m)]
    /\ UNCHANGED <<cacheVars, histVars, kind, session, watch, reqs,
                   threadVars>>

\* GeminiEngine.health_check (gemini_engine.py:174-211)
GeminiHealthCheck(reply) ==
    LET r == GeminiGenerate(_cache, _cache_hits, _cache_misses,
                            health_say_ok_prompt,
                            Some(health_max_new_tokens), Nothing, Nothing,
                            FALSE, reply)
    IN  /\ kind = "gemini"
        /\ _cache' = r.cache
        /\ _cache_hits' = r.hits
        /\ _cache_misses' = r.misses
        /\ HealthReport(_cache, _cache_hits, _cache_misses, r, FALSE, "")

\* requests.get(f"{self.base_url}/api/tags", timeout=5): raises, or answers
\* with a status code
TagsReplies ==
    {[raises |-> TRUE, status |-> 0]}
    \cup {[raises |-> FALSE, status |-> c] : c \in {200, 500}}

\* OllamaEngine.health_check (ollama_engine.py:175-218)
OllamaHealthCheck(tags, reply) ==
    LET r == IF tags.raises
             THEN [cache |-> _cache, hits |-> _cache_hits,
                   misses |-> _cache_misses, result |-> Err("Exception", 0)]
             ELSE OllamaGenerate(_cache, _cache_hits, _cache_misses,
                                 health_say_ok_prompt,
                                 Some(health_max_new_tokens), Nothing,
                                 Nothing, FALSE, reply)
        ollama_status == IF r.result.status # "ok" THEN ""
                         ELSE IF tags.status = 200 THEN "connected"
                         ELSE "error"
    IN  /\ kind = "ollama"
        /\ _cache' = r.cache
        /\ _cache_hits' = r.hits
        /\ _cache_misses' = r.misses
        /\ HealthReport(_cache, _cache_hits, _cache_misses, r, tags.raises,
                        ollama_status)

NextHealth ==
    \/ \E a \in reqs, use_cache \in BOOLEAN :
          \E script \in Scripts(OrDefault(a[2], max_new_tokens_env)) :
              GenerateNPU(a, use_cache, script)
    \/ \E a \in reqs, use_cache \in BOOLEAN, reply \in GeminiReplies :
          GenerateGemini(a, use_cache, reply)
    \/ \E a \in reqs, use_cache \in BOOLEAN, reply \in OllamaReplies :
          GenerateOllama(a, use_cache, reply)
    \/ \E script \in {sc \in Scripts(max_new_tokens_env) :
                          sc[Len(sc)] # Sampled(1)} : HealthCheck(script)
    \/ \E reply \in GeminiReplies : GeminiHealthCheck(reply)
    \/ \E tags \in TagsReplies, reply \in OllamaReplies :
          OllamaHealthCheck(tags, reply)
    \/ GetModelInfo

SpecHealth == InitHealth /\ [][NextHealth]_vars

\* ------------------------------------------------------------------------
\* Threads calling GeminiEngine() concurrently (gemini_engine.py:21-76;
\* NPUInferenceEngine and OllamaEngine have the same __new__ and the same
\* unlocked "if self._initialized: return" at the head of __init__)
\* ------------------------------------------------------------------------
\* the "if cls._instance is None" inside the lock, mutated: always true
InnerCheckSkipped(inst) == TRUE

\* the "if cls._instance is None" inside the lock (gemini_engine.py:28)
InnerCheck(inst) == inst = 0

Goto(t, label) == pc' = [pc EXCEPT ![t] = label]

\* "if not self.api_key", mutated: never true
ApiKeyNeverMissing(key) == FALSE

\* "if not self.api_key" (gemini_engine.py:44)
ApiKeyMissing(key) == ~key

InitSingleton ==
    /\ pc = [t \in Threads |-> "new_check"]
    /\ frame = [t \in Threads |-> NoFrame]
    /\ _lock = 0
    /\ _instance = 0
    /\ _initialized = [o \in Threads |-> "unset"]
    /\ env_api_key \in BOOLEAN
    /\ created = 0
    /\ initRuns = 0
    /\ replaced = FALSE
    /\ lookups = 0
    /\ kind = "gemini"
    /\ session = FALSE
    /\ _cache = <<>>
    /\ _cache_hits = 0
    /\ _cache_misses = 0
    /\ watch = NoWatch
    /\ last = NoCall
    /\ reqs = {<<1, Nothing, Nothing, Nothing>>}
    /\ max_cache_size_mb = 0
    /\ cache = <<>>
    /\ cache_hits = 0
    /\ cache_misses = 0
    /\ fifo = <<>>
    /\ lastOp = NoOp

classVars == <<_lock, _instance, _initialized, created>>
fieldVars == <<_cache, _cache_hits, _cache_misses>>
restOfSingleton == <<cacheVars, histVars, kind, session, watch, last, reqs,
                     env_api_key, lookups>>

\* __new__: if cls._instance is None (outside the lock)
NewCheck(t) ==
    /\ pc[t] = "new_check"
    /\ Goto(t, IF _instance = 0 THEN "new_lock" ELSE "new_return")
    /\ UNCHANGED <<frame, classVars, fieldVars, initRuns, replaced,
                   restOfSingleton>>

\* with cls._lock:
NewLock(t) ==
    /\ pc[t] = "new_lock"
    /\ _lock = 0
    /\ _lock' = t
    /\ Goto(t, "new_check2")
    /\ UNCHANGED <<frame, _instance, _initialized, created, fieldVars,
                   initRuns, replaced, restOfSingleton>>

\* if cls._instance is None (inside the lock)
NewCheck2(t) ==
    /\ pc[t] = "new_check2"
    /\ Goto(t, IF InnerCheck(_instance) THEN "new_create" ELSE "new_unlock")
    /\ UNCHANGED <<frame, classVars, fieldVars, initRuns, replaced,
                   restOfSingleton>>

\* cls._instance = super().__new__(cls)
NewCreate(t) ==
    /\ pc[t] = "new_create"
    /\ created' = created + 1
    /\ _instance' = created + 1
    /\ Goto(t, "new_setflag")
    /\ UNCHANGED <<frame, _lock, _initialized, fieldVars, initRuns, replaced,
                   restOfSingleton>>

\* cls._instance._initialized = False
NewSetFlag(t) ==
    /\ pc[t] = "new_setflag"
    /\ _initialized' = [_initialized EXCEPT ![_instance] = "False"]
    /\ Goto(t, "new_unlock")
    /\ UNCHANGED <<frame, _lock, _instance, created, fieldVars, initRuns,
                   replaced, restOfSingleton>>

\* leaving the with block
NewUnlock(t) ==
    /\ pc[t] = "new_unlock"
    /\ _lock' = 0
    /\ Goto(t, "new_return")
    /\ UNCHANGED <<frame, _instance, _initialized, created, fieldVars,
                   initRuns, replaced, restOfSingleton>>

\* return cls._instance; type.__call__ then calls __init__ on it
NewReturn(t) ==
    /\ pc[t] = "new_return"
    /\ frame' = [frame EXCEPT ![t].self = _instance]
    /\ Goto(t, "init_check")
    /\ UNCHANGED <<classVars, fieldVars, initRuns, replaced, restOfSingleton>>

\* __init__: if self._initialized: return. Reading the attribute before
\* __new__ has set it raises AttributeError.
InitCheck(t) ==
    /\ pc[t] = "init_check"
    /\ LET flag == _initialized[frame[t].self]
       IN  /\ Goto(t, IF flag = "unset" THEN "raised"
                      ELSE IF flag = "True" THEN "done"
                      ELSE "init_config")
           /\ initRuns' = IF flag = "False" THEN initRuns + 1 ELSE initRuns
    /\ UNCHANGED <<frame, classVars, fieldVars, replaced, restOfSingleton>>

\* self.api_key = os.getenv(...); raise ValueError when it is missing;
\* genai.configure; self.model = genai.GenerativeModel(...)
InitConfig(t) ==
    /\ pc[t] = "init_config"
    /\ Goto(t, IF ApiKeyMissing(env_api_key) THEN "raised" ELSE "init_cache")
    /\ UNCHANGED <<frame, classVars, fieldVars, initRuns, replaced,
                   restOfSingleton>>

\* self._cache = {}
InitCacheField(t) ==
    /\ pc[t] = "init_cache"
    /\ _cache' = <<>>
    /\ replaced' = (replaced \/ _cache # <<>>)
    /\ Goto(t, "init_hits")
    /\ UNCHANGED <<frame, classVars, _cache_hits, _cache_misses, initRuns,
                   restOfSingleton>>

\* self._cache_hits = 0
InitHits(t) ==
    /\ pc[t] = "init_hits"
    /\ _cache_hits' = 0
    /\ Goto(t, "init_misses")
    /\ UNCHANGED <<frame, classVars, _cache, _cache_misses, initRuns, replaced,
                   restOfSingleton>>

\* self._cache_misses = 0
InitMisses(t) ==
    /\ pc[t] = "init_misses"
    /\ _cache_misses' = 0
    /\ Goto(t, "init_test")
    /\ UNCHANGED <<frame, classVars, _cache, _cache_hits, initRuns, replaced,
                   restOfSingleton>>

\* self._test_connection(): one backend call, every exception swallowed
InitTest(t) ==
    /\ pc[t] = "init_test"
    /\ Goto(t, "init_flag")
    /\ UNCHANGED <<frame, classVars, fieldVars, initRuns, replaced,
                   restOfSingleton>>

\* self._initialized = True
InitFlag(t) ==
    /\ pc[t] = "init_flag"
    /\ _initialized' = [_initialized EXCEPT ![frame[t].self] = "True"]
    /\ Goto(t, "done")
    /\ UNCHANGED <<frame, _lock, _instance, created, fieldVars, initRuns,
                   replaced, restOfSingleton>>

\* the caller, holding the engine, makes one cached generate call
UseEngine(t, reply) ==
    /\ pc[t] = "done"
    /\ LET a == <<1, Nothing, Nothing, Nothing>>
           r == GeminiGenerate(_cache, _cache_hits, _cache_misses,
                               a[1], a[2], a[3], a[4], TRUE, reply)
       IN  /\ _cache' = r.cache
           /\ _cache_hits' = r.hits
           /\ _cache_misses' = r.misses
    /\ Goto(t, "used")
    /\ UNCHANGED <<frame, classVars, initRuns, replaced, restOfSingleton>>

NextSingleton ==
    \E t \in Threads :
        \/ NewCheck(t)
        \/ NewLock(t)
        \/ NewCheck2(t)
        \/ NewCreate(t)
        \/ NewSetFlag(t)
        \/ NewUnlock(t)
        \/ NewReturn(t)
        \/ InitCheck(t)
        \/ InitConfig(t)
        \/ InitCacheField(t)
        \/ InitHits(t)
        \/ InitMisses(t)
        \/ InitTest(t)
        \/ InitFlag(t)
        \/ \E reply \in GeminiReplies : UseEngine(t, reply)

SpecSingleton == InitSingleton /\ [][NextSingleton]_vars

\* ------------------------------------------------------------------------
\* Threads calling get and put on one shared KVCacheManager. The class
\* takes no lock (cache_manager.py:32-71); a thread switch can fall between
\* any two statements, and between the load and the store of "+= 1".
\* ------------------------------------------------------------------------
ConcBlobs == {Blob("x", n * MiB) : n \in 1..MaxBlobMB}

\* the call returns: its locals are gone
Return(t) ==
    frame' = [frame EXCEPT ![t] = [NoFrame EXCEPT !.ops = frame[t].ops]]

InitKVConc ==
    /\ max_cache_size_mb = 1
    /\ cache = <<>>
    /\ cache_hits = 0
    /\ cache_misses = 0
    /\ fifo = <<>>
    /\ lastOp = NoOp
    /\ EngineIdle
    /\ pc = [t \in Threads |-> "idle"]
    /\ frame = [t \in Threads |-> NoFrame]
    /\ _lock = 0
    /\ _instance = 0
    /\ _initialized = [o \in Threads |-> "unset"]
    /\ env_api_key = TRUE
    /\ created = 0
    /\ initRuns = 0
    /\ replaced = FALSE
    /\ lookups = 0

restOfKVConc == <<max_cache_size_mb, histVars, engineVars, callVars, _lock,
                  _instance, _initialized, env_api_key, created, initRuns,
                  replaced>>

\* a caller enters get(key)
CallGet(t, k) ==
    /\ pc[t] = "idle"
    /\ frame[t].ops < OpsPerThread
    /\ frame' = [frame EXCEPT ![t].key = k, ![t].ops = @ + 1]
    /\ Goto(t, "get_test")
    /\ UNCHANGED <<cache, cache_hits, cache_misses, lookups, restOfKVConc>>

\* if key in self.cache
GetTest(t) ==
    /\ pc[t] = "get_test"
    /\ Goto(t, IF frame[t].key \in DictKeys(cache) THEN "get_hit_load"
               ELSE "get_miss_load")
    /\ lookups' = lookups + 1
    /\ UNCHANGED <<frame, cache, cache_hits, cache_misses, restOfKVConc>>

\* self.cache_hits += 1, the load
GetHitLoad(t) ==
    /\ pc[t] = "get_hit_load"
    /\ frame' = [frame EXCEPT ![t].tmp = cache_hits]
    /\ Goto(t, "get_hit_store")
    /\ UNCHANGED <<cache, cache_hits, cache_misses, lookups, restOfKVConc>>

\* self.cache_hits += 1, the store
GetHitStore(t) ==
    /\ pc[t] = "get_hit_store"
    /\ cache_hits' = frame[t].tmp + 1
    /\ Goto(t, "get_return")
    /\ UNCHANGED <<frame, cache, cache_misses, lookups, restOfKVConc>>

\* return self.cache[key]: KeyError when the key was evicted meanwhile
GetReturn(t) ==
    /\ pc[t] = "get_return"
    /\ Goto(t, IF frame[t].key \in DictKeys(cache) THEN "idle" ELSE "raised")
    /\ Return(t)
    /\ UNCHANGED <<cache, cache_hits, cache_misses, lookups, restOfKVConc>>

\* self.cache_misses += 1, the load
GetMissLoad(t) ==
    /\ pc[t] = "get_miss_load"
    /\ frame' = [frame EXCEPT ![t].tmp = cache_misses]
    /\ Goto(t, "get_miss_store")
    /\ UNCHANGED <<cache, cache_hits, cache_misses, lookups, restOfKVConc>>

\* self.cache_misses += 1, the store; return None
GetMissStore(t) ==
    /\ pc[t] = "get_miss_store"
    /\ cache_misses' = frame[t].tmp + 1
    /\ Goto(t, "idle")
    /\ Return(t)
    /\ UNCHANGED <<cache, cache_hits, lookups, restOfKVConc>>

\* a caller enters put(key, value)
CallPut(t, k, v) ==
    /\ pc[t] = "idle"
    /\ frame[t].ops < OpsPerThread
    /\ frame' = [frame EXCEPT ![t].key = k, ![t].value = v, ![t].ops = @ + 1]
    /\ Goto(t, "put_sum")
    /\ UNCHANGED <<cache, cache_hits, cache_misses, lookups, restOfKVConc>>

\* current_size_mb = sum(v.nbytes for v in self.cache.values()) / (1024 * 1024)
PutSum(t) ==
    /\ pc[t] = "put_sum"
    /\ frame' = [frame EXCEPT ![t].current = SumBytes(cache)]
    /\ Goto(t, "put_while")
    /\ UNCHANGED <<cache, cache_hits, cache_misses, lookups, restOfKVConc>>

\* while current_size_mb > self.max_cache_size_mb and self.cache
PutWhile(t) ==
    /\ pc[t] = "put_while"
    /\ Goto(t, IF frame[t].current > max_cache_size_mb * MiB /\ cache # <<>>
               THEN "put_pick" ELSE "put_store")
    /\ UNCHANGED <<frame, cache, cache_hits, cache_misses, lookups,
                   restOfKVConc>>

\* oldest_key = next(iter(self.cache)): StopIteration on an empty dict
PutPick(t) ==
    /\ pc[t] = "put_pick"
    /\ IF cache = <<>>
       THEN Goto(t, "raised") /\ Return(t)
       ELSE /\ frame' = [frame EXCEPT
                           ![t].oldest_key = cache[OldestIndex(cache)].key]
            /\ Goto(t, "put_size")
    /\ UNCHANGED <<cache, cache_hits, cache_misses, lookups, restOfKVConc>>

\* evicted_size = self.cache[oldest_key].nbytes / (1024 * 1024): KeyError
\* when another thread has deleted the key
PutSize(t) ==
    /\ pc[t] = "put_size"
    /\ IF frame[t].oldest_key \in DictKeys(cache)
       THEN /\ frame' = [frame EXCEPT ![t].evicted_size =
                            DictGet(cache, frame[t].oldest_key).nbytes]
            /\ Goto(t, "put_del")
       ELSE Goto(t, "raised") /\ Return(t)
    /\ UNCHANGED <<cache, cache_hits, cache_misses, lookups, restOfKVConc>>

\* del self.cache[oldest_key]: KeyError when another thread has deleted it
PutDel(t) ==
    /\ pc[t] = "put_del"
    /\ IF frame[t].oldest_key \in DictKeys(cache)
       THEN /\ cache' = DictDel(cache, frame[t].oldest_key)
            /\ Goto(t, "put_sub")
            /\ UNCHANGED frame
       ELSE Goto(t, "raised") /\ Return(t) /\ UNCHANGED cache
    /\ UNCHANGED <<cache_hits, cache_misses, lookups, restOfKVConc>>

\* current_size_mb -= evicted_size
PutSub(t) ==
    /\ pc[t] = "put_sub"
    /\ frame' = [frame EXCEPT ![t].current = @ - frame[t].evicted_size]
    /\ Goto(t, "put_while")
    /\ UNCHANGED <<cache, cache_hits, cache_misses, lookups, restOfKVConc>>

\* self.cache[key] = value
PutStore(t) ==
    /\ pc[t] = "put_store"
    /\ cache' = DictSet(cache, frame[t].key, frame[t].value)
    /\ Goto(t, "idle")
    /\ Return(t)
    /\ UNCHANGED <<cache_hits, cache_misses, lookups, restOfKVConc>>

NextKVConc ==
    \E t \in Threads :
        \/ \E k \in CacheKeys : CallGet(t, k)
        \/ GetTest(t)
        \/ GetHitLoad(t)
        \/ GetHitStore(t)
        \/ GetReturn(t)
        \/ GetMissLoad(t)
        \/ GetMissStore(t)
        \/ \E k \in CacheKeys, v \in ConcBlobs : CallPut(t, k, v)
        \/ PutSum(t)
        \/ PutWhile(t)
        \/ PutPick(t)
        \/ PutSize(t)
        \/ PutDel(t)
        \/ PutSub(t)
        \/ PutStore(t)

SpecKVConc == InitKVConc /\ [][NextKVConc]_vars

\* ------------------------------------------------------------------------
\* NPUInferenceEngine.generate, statement by statement (npu_engine.py:255-357)
\* One caller (thread 1) makes up to OpsPerThread calls on one engine.
\* ------------------------------------------------------------------------
Caller == 1

InitDecode ==
    /\ kind = "npu"
    /\ session \in BOOLEAN
    /\ max_cache_size_mb \in {0, kv_cache_size_default}
    /\ cache = <<>>
    /\ cache_hits = 0
    /\ cache_misses = 0
    /\ _cache = <<>>
    /\ _cache_hits = 0
    /\ _cache_misses = 0
    /\ watch = NoWatch
    /\ last = NoCall
    /\ reqs = Requests
    /\ fifo = <<>>
    /\ lastOp = NoOp
    /\ ThreadsIdle

restOfDecode == <<max_cache_size_mb, histVars, engineVars, callVars, _lock,
                  _instance, _initialized, env_api_key, created, initRuns,
                  replaced, lookups>>

\* the locals of the running call
Gen == frame[Caller].gen

SetGen(g, label) ==
    /\ frame' = [frame EXCEPT ![Caller].gen = g]
    /\ pc' = [pc EXCEPT ![Caller] = label]

\* "return text": the locals stay readable until the next call
ReturnText(text, source) ==
    /\ frame' = [frame EXCEPT
                    ![Caller].gen = [Gen EXCEPT !.generated_text = text,
                                                !.source = source],
                    ![Caller].ops = frame[Caller].ops + 1]
    /\ pc' = [pc EXCEPT ![Caller] = "idle"]

\* generate is called; the defaults are filled in and the cache key is built
\* (npu_engine.py:279-286)
GenCall(a, use_cache) ==
    /\ pc[Caller] = "idle"
    /\ frame[Caller].ops < OpsPerThread
    /\ LET max_new_tokens == OrDefault(a[2], max_new_tokens_env)
           temperature == OrDefault(a[3], temperature_default)
           top_p == OrDefault(a[4], top_p_default)
       IN  SetGen([NoGen EXCEPT
                     !.args = a, !.use_cache = use_cache,
                     !.max_new_tokens = max_new_tokens,
                     !.cache_key = NPUCacheKey(a[1], max_new_tokens,
                                               temperature, top_p)],
                  "gen_lookup")
    /\ UNCHANGED <<cache, cache_hits, cache_misses, restOfDecode>>

\* if use_cache: cached_result = self.kv_cache.get(cache_key) ...
\* (npu_engine.py:287-291)
GenLookup ==
    /\ pc[Caller] = "gen_lookup"
    /\ IF CacheEnabled(Gen.use_cache)
       THEN LET got == KVGet(cache, cache_hits, cache_misses, Gen.cache_key)
            IN  /\ cache_hits' = got.hits
                /\ cache_misses' = got.misses
                /\ IF got.found THEN ReturnText(got.ret.data, "cache")
                   ELSE SetGen(Gen, "gen_session")
       ELSE /\ SetGen(Gen, "gen_session")
            /\ UNCHANGED <<cache_hits, cache_misses>>
    /\ UNCHANGED <<cache, restOfDecode>>

\* if self.session is None: the mock response (npu_engine.py:293-300)
GenSimulation ==
    /\ pc[Caller] = "gen_session"
    /\ ~session
    /\ cache' = IF CacheEnabled(Gen.use_cache)
                THEN KVPut(cache, max_cache_size_mb, Gen.cache_key,
                           ArrayOfText(MockResponse(Gen.args[1]))).cache
                ELSE cache
    /\ ReturnText(MockResponse(Gen.args[1]), "simulation")
    /\ UNCHANGED <<cache_hits, cache_misses, restOfDecode>>

\* inputs = self._prepare_inputs(prompt); generated_ids = ...
\* (npu_engine.py:302-306)
GenPrepare ==
    /\ pc[Caller] = "gen_session"
    /\ session
    /\ SetGen([Gen EXCEPT !.generated_ids = Tokenize(Gen.args[1]),
                          !.step = 0], "gen_for")
    /\ UNCHANGED <<cache, cache_hits, cache_misses, restOfDecode>>

\* for step in range(max_new_tokens) (npu_engine.py:309)
GenFor ==
    /\ pc[Caller] = "gen_for"
    /\ SetGen(Gen, IF Gen.step < Gen.max_new_tokens THEN "gen_run"
                   ELSE "gen_decode")
    /\ UNCHANGED <<cache, cache_hits, cache_misses, restOfDecode>>

\* outputs = self.session.run(None, inputs); next_token = _sample_token(...);
\* generated_ids.append(next_token) (npu_engine.py:311-320); a raise goes to
\* the except branch
GenRun(outcome) ==
    /\ pc[Caller] = "gen_run"
    /\ IF outcome.ok
       THEN SetGen([Gen EXCEPT
                      !.calls = Gen.calls + 1,
                      !.next_token = outcome.token,
                      !.generated_ids = Append(Gen.generated_ids,
                                               outcome.token),
                      !.sampled = Append(Gen.sampled, outcome.token)],
                   "gen_eos")
       ELSE SetGen([Gen EXCEPT !.calls = Gen.calls + 1], "gen_except")
    /\ UNCHANGED <<cache, cache_hits, cache_misses, restOfDecode>>

\* if next_token == eos_token_id: break; else the next iteration
\* (npu_engine.py:322-340)
GenEos ==
    /\ pc[Caller] = "gen_eos"
    /\ IF IsEos(Gen.next_token) THEN SetGen(Gen, "gen_decode")
       ELSE SetGen([Gen EXCEPT !.step = Gen.step + 1], "gen_for")
    /\ UNCHANGED <<cache, cache_hits, cache_misses, restOfDecode>>

\* except Exception: logger.error(...); break (npu_engine.py:342-344)
GenExcept ==
    /\ pc[Caller] = "gen_except"
    /\ SetGen([Gen EXCEPT !.failStep = Gen.step], "gen_decode")
    /\ UNCHANGED <<cache, cache_hits, cache_misses, restOfDecode>>

\* generated_text = self.tokenizer.decode(generated_ids, ...); the put when
\* use_cache; return generated_text (npu_engine.py:347-357)
GenFinish ==
    /\ pc[Caller] = "gen_decode"
    /\ LET generated_text == Decode(Gen.generated_ids)
       IN  /\ cache' = IF CacheEnabled(Gen.use_cache)
                       THEN KVPut(cache, max_cache_size_mb, Gen.cache_key,
                                  ArrayOfText(generated_text)).cache
                       ELSE cache
           /\ ReturnText(generated_text, "model")
    /\ UNCHANGED <<cache_hits, cache_misses, restOfDecode>>

NextDecode ==
    \/ \E a \in reqs, use_cache \in BOOLEAN : GenCall(a, use_cache)
    \/ GenLookup
    \/ GenSimulation
    \/ GenPrepare
    \/ GenFor
    \/ \E outcome \in StepOutcomes : GenRun(outcome)
    \/ GenEos
    \/ GenExcept
    \/ GenFinish

\* The caller's thread keeps running: a statement that can be executed is
\* executed.
SpecDecode == InitDecode /\ [][NextDecode]_vars /\ WF_vars(NextDecode)

\* ------------------------------------------------------------------------
\* The plan validation and plan adjustment endpoints (routes/plan.py on the
\* Gemini engine, routes/plan_ai.py on the NPU engine), one request at a time
\* ------------------------------------------------------------------------
\* The prompts are built from the stored plan and the request body.
RoutePrompts == {1, 2}

\* What the scoring collaborator does during an endpoint's generate call: the
\* answer ends, or a step fails, within max_new_tokens_env decode steps.
RouteScripts ==
    {s \in Scripts(max_new_tokens_env) : s[Len(s)] # Sampled(1)}

InitRoutes ==
    /\ kind \in {"npu", "gemini"}
    /\ session \in (IF kind = "npu" THEN BOOLEAN ELSE {FALSE})
    /\ max_cache_size_mb \in
           (IF kind = "npu" THEN {0, kv_cache_size_default} ELSE {0})
    /\ cache = <<>>
    /\ cache_hits = 0
    /\ cache_misses = 0
    /\ _cache = <<>>
    /\ _cache_hits = 0
    /\ _cache_misses = 0
    /\ watch = NoWatch
    /\ last = NoCall
    /\ reqs = {}
    /\ fifo = <<>>
    /\ lastOp = NoOp
    /\ ThreadsIdle

\* get_plan answered with another status than 200: the endpoint returns 404
\* before it reaches the engine
NoPlanFound(route) ==
    /\ last' = [NoCall EXCEPT !.route = route, !.status = "404"]
    /\ UNCHANGED <<cacheVars, histVars, engineVars, watch, reqs, threadVars>>

\* what an endpoint's generate call for request a did, going from the cache
\* and counters (c, h, m) to r
Served(route, a, use_cache, c, h, m, r) ==
    /\ last' = [route |-> route, args |-> a, use_cache |-> use_cache,
                backendFailed |-> FALSE,
                valid |-> ValidRequest(a),
                status |-> r.result.status, error |-> r.result.error,
                text |-> r.result.text,
                calls |-> r.result.calls, failStep |-> r.result.failStep,
                mode |-> "", ollama_status |-> "", sample |-> NoSample,
                repeat |-> FALSE, afterClear |-> FALSE, hit |-> r.hits # h,
                cacheChanged |-> r.cache # c,
                countersChanged |-> (r.hits # h \/ r.misses # m)]
    /\ UNCHANGED <<watch, reqs, threadVars>>

\* ai_engine = get_gemini_engine(); ai_engine.generate(prompt=..., ...)
GeminiRoute(route, a, use_cache, reply) ==
    LET r == GeminiGenerate(_cache, _cache_hits, _cache_misses,
                            a[1], a[2], a[3], a[4], use_cache, reply)
    IN  /\ kind = "gemini"
        /\ use_cache => _cache_hits + _cache_misses < MaxLookups
        /\ _cache' = r.cache
        /\ _cache_hits' = r.hits
        /\ _cache_misses' = r.misses
        /\ Served(route, a, use_cache, _cache, _cache_hits, _cache_misses, r)
        /\ UNCHANGED <<cacheVars, histVars, kind, session>>

\* npu_engine = get_npu_engine(); npu_engine.generate(prompt=..., ...)
NPURoute(route, a, use_cache, script) ==
    LET r == NPUGenerate(cache, cache_hits, cache_misses, max_cache_size_mb,
                         session, a[1], a[2], a[3], a[4], use_cache, script)
    IN  /\ kind = "npu"
        /\ use_cache => cache_hits + cache_misses < MaxLookups
        /\ cache' = r.cache
        /\ cache_hits' = r.hits
        /\ cache_misses' = r.misses
        /\ Served(route, a, use_cache, cache, cache_hits, cache_misses, r)
        /\ UNCHANGED <<max_cache_size_mb, histVars, engineVars>>

\* routes/plan.py validate_user_plan: use_cache=True
ValidateUserPlan(prompt, reply) ==
    \/ kind = "gemini" /\ NoPlanFound("validate")
    \/ GeminiRoute("validate",
                   <<prompt, Some(validate_max_new_tokens),
                     Some(validate_temperature), Nothing>>,
                   TRUE, reply)

\* routes/plan.py adjust_user_plan: use_cache=False
AdjustUserPlan(prompt, reply) ==
    \/ kind = "gemini" /\ NoPlanFound("adjust")
    \/ GeminiRoute("adjust",
                   <<prompt, Some(adjust_max_new_tokens),
                     Some(adjust_temperature), Nothing>>,
                   FALSE, reply)

\* routes/plan.py adjust_workout_plan: use_cache=False
AdjustWorkoutPlan(prompt, reply) ==
    \/ kind = "gemini" /\ NoPlanFound("adjust_workout")
    \/ GeminiRoute("adjust_workout",
                   <<prompt, Some(adjust_workout_max_new_tokens),
                     Some(adjust_temperature), Nothing>>,
                   FALSE, reply)

\* routes/plan.py adjust_nutrition_plan: use_cache=False
AdjustNutritionPlan(prompt, reply) ==
    \/ kind = "gemini" /\ NoPlanFound("adjust_nutrition")
    \/ GeminiRoute("adjust_nutrition",
                   <<prompt, Some(adjust_nutrition_max_new_tokens),
                     Some(adjust_temperature), Nothing>>,
                   FALSE, reply)

\* routes/plan_ai.py validate_user_plan: use_cache=True
ValidateUserPlanNPU(prompt, script) ==
    \/ kind = "npu" /\ NoPlanFound("validate")
    \/ NPURoute("validate",
                <<prompt, Some(validate_max_new_tokens),
                  Some(validate_temperature), Nothing>>,
                TRUE, script)

\* routes/plan_ai.py adjust_user_plan: use_cache=False
AdjustUserPlanNPU(prompt, script) ==
    \/ kind = "npu" /\ NoPlanFound("adjust")
    \/ NPURoute("adjust",
                <<prompt, Some(adjust_max_new_tokens),
                  Some(adjust_temperature), Nothing>>,
                FALSE, script)

NextRoutes ==
    \/ \E prompt \in RoutePrompts, reply \in GeminiReplies :
          ValidateUserPlan(prompt, reply)
    \/ \E prompt \in RoutePrompts, reply \in GeminiReplies :
          AdjustUserPlan(prompt, reply)
    \/ \E prompt \in RoutePrompts, reply \in GeminiReplies :
          AdjustWorkoutPlan(prompt, reply)
    \/ \E prompt \in RoutePrompts, reply \in GeminiReplies :
          AdjustNutritionPlan(prompt, reply)
    \/ \E prompt \in RoutePrompts, script \in RouteScripts :
          ValidateUserPlanNPU(prompt, script)
    \/ \E prompt \in RoutePrompts, script \in RouteScripts :
          AdjustUserPlanNPU(prompt, script)

SpecRoutes == InitRoutes /\ [][NextRoutes]_vars

\* ------------------------------------------------------------------------
\* validate_generation_params applied to arguments of every kind
\* ------------------------------------------------------------------------
\* The arguments offered: None, values on and next to each limit, values of
\* the wrong type, and nan. Temperatures and top_p values are in tenths.
MaxNewTokensArgs ==
    {PyNone, PyInt(0 - 1), PyInt(0), PyInt(1), PyInt(2048), PyInt(2049),
     PyFloat(5), PyStr}
TemperatureArgs ==
    {PyNone, PyInt(0), PyFloat(0 - 10), PyFloat(1), PyFloat(20), PyFloat(21),
     PyInt(10), PyNaN, PyStr}
TopPArgs ==
    {PyNone, PyFloat(0), PyFloat(1), PyFloat(10), PyFloat(11), PyInt(10),
     PyNaN, PyStr}

InitValidate ==
    /\ max_cache_size_mb = 0
    /\ cache = <<>>
    /\ cache_hits = 0
    /\ cache_misses = 0
    /\ fifo = <<>>
    /\ lastOp = NoOp
    /\ EngineIdle
    /\ ThreadsIdle

\* a call validate_generation_params(max_new_tokens, temperature, top_p)
CallValidate(max_new_tokens, temperature, top_p) ==
    LET r == validate_generation_params(max_new_tokens, temperature, top_p)
    IN  /\ last' = [NoCall EXCEPT
                       !.route = "validate_generation_params",
                       !.args = <<0, max_new_tokens, temperature, top_p>>,
                       !.valid = r.is_valid,
                       !.error = r.error]
        /\ UNCHANGED <<cacheVars, histVars, engineVars, watch, reqs,
                       threadVars>>

NextValidate ==
    \E max_new_tokens \in MaxNewTokensArgs, temperature \in TemperatureArgs,
       top_p \in TopPArgs :
        CallValidate(max_new_tokens, temperature, top_p)

SpecValidate == InitValidate /\ [][NextValidate]_vars

\* ------------------------------------------------------------------------
\* NPUInferenceEngine._sample_token applied to distributions of every shape
\* ------------------------------------------------------------------------
\* Arrays are functions on 0..n-1, as in numpy. probs is the array after
\* "probs = probs / np.sum(probs)" (npu_engine.py:234-238) in units of
\* 1/ProbScale: its largest entry is positive, an entry that underflowed is
\* 0, and the computed sum is 1 or, after rounding, just below 1.
Range(n) == 0..(n - 1)
RECURSIVE ArraySum(_, _)
\* a[0] + ... + a[n-1]
ArraySum(a, n) == IF n = 0 THEN 0 ELSE ArraySum(a, n - 1) + a[n - 1]
Distributions(n) ==
    {probs \in [Range(n) -> 0..ProbScale] :
        ArraySum(probs, n) \in {ProbScale - 1, ProbScale}}

\* np.argsort(probs)[::-1]: the indices in an order of descending
\* probability; the order of equal entries is not specified
ArgsortDescending(probs, n) ==
    {order \in [Range(n) -> Range(n)] :
        /\ \A i, j \in Range(n) : i # j => order[i] # order[j]
        /\ \A i \in Range(n - 1) : probs[order[i]] >= probs[order[i + 1]]}

\* np.cumsum(a)
CumSum(a, n) == [i \in Range(n) |-> ArraySum(a, i + 1)]

\* np.searchsorted(a, v), mutated: side="right", the number of entries not
\* above v
SearchSortedRight(a, n, v) == Cardinality({i \in Range(n) : a[i] <= v})

\* np.searchsorted(a, v) on the ascending array a: the leftmost position
\* at which v can be inserted, the number of entries below v
SearchSorted(a, n, v) == Cardinality({i \in Range(n) : a[i] < v})

\* _sample_token after the softmax (npu_engine.py:240-253): the locals of a
\* call that sorted the indices as sorted_indices and drew sampled_idx
SampleToken(probs, n, top_p, sorted_indices, sampled_idx) ==
    LET sorted_probs == [i \in Range(n) |-> probs[sorted_indices[i]]]
        cumulative_probs == CumSum(sorted_probs, n)
        cutoff_idx == SearchSorted(cumulative_probs, n, top_p)
        nucleus_indices ==
            {sorted_indices[i] : i \in {k \in Range(n) : k < cutoff_idx + 1}}
    IN  [probs |-> probs, top_p |-> top_p, sorted_indices |-> sorted_indices,
         cutoff_idx |-> cutoff_idx, nucleus_indices |-> nucleus_indices,
         sampled_idx |-> sampled_idx]

\* np.random.choice(nucleus_indices, p=nucleus_probs) can draw the members
\* of the nucleus whose probability is not 0
Drawable(probs, nucleus_indices) == {i \in nucleus_indices : probs[i] > 0}

InitSample ==
    /\ max_cache_size_mb = 0
    /\ cache = <<>>
    /\ cache_hits = 0
    /\ cache_misses = 0
    /\ fifo = <<>>
    /\ lastOp = NoOp
    /\ EngineIdle
    /\ ThreadsIdle

\* a call self._sample_token(logits, temperature, top_p)
CallSampleToken(n, probs, top_p) ==
    \E sorted_indices \in ArgsortDescending(probs, n) :
        LET nucleus == SampleToken(probs, n, top_p, sorted_indices,
                                   0).nucleus_indices
        IN  \E sampled_idx \in Drawable(probs, nucleus) :
                /\ last' = [NoCall EXCEPT
                               !.route = "_sample_token",
                               !.sample = SampleToken(probs, n, top_p,
                                                      sorted_indices,
                                                      sampled_idx)]
                /\ UNCHANGED <<cacheVars, histVars, engineVars, watch, reqs,
                               threadVars>>

NextSample ==
    \E n \in 1..MaxVocab, top_p \in 1..ProbScale :
        \E probs \in Distributions(n) : CallSampleToken(n, probs, top_p)

SpecSample == InitSample /\ [][NextSample]_vars

\* ------------------------------------------------------------------------
\* Threads calling generate on one shared GeminiEngine or OllamaEngine
\* (gemini_engine.py:98-172, ollama_engine.py:93-173), one statement at a
\* time. Each thread makes one call; the engine starts with an empty cache.
\* ------------------------------------------------------------------------
InitGenConc ==
    /\ max_cache_size_mb = 0
    /\ cache = <<>>
    /\ cache_hits = 0
    /\ cache_misses = 0
    /\ fifo = <<>>
    /\ lastOp = NoOp
    /\ reqs = HealthRequests
    /\ kind \in {"gemini", "ollama"}
    /\ session = FALSE
    /\ _cache = <<>>
    /\ _cache_hits = 0
    /\ _cache_misses = 0
    /\ watch = NoWatch
    /\ last = NoCall
    /\ ThreadsIdle

restOfGenConc == <<cacheVars, fifo, kind, session, callVars, _lock, _instance,
                   _initialized, env_api_key, created, initRuns, replaced,
                   lookups>>

\* the locals of thread t's call become g and t goes on at label
SetCall(t, g, label) ==
    /\ frame' = [frame EXCEPT ![t].gen = g]
    /\ Goto(t, label)

\* generate is called: the defaults are filled in
\* (gemini_engine.py:119-121, ollama_engine.py:114-116)
ConcCall(t, a, use_cache) ==
    /\ pc[t] = "idle"
    /\ frame[t].ops = 0
    /\ frame' = [frame EXCEPT
                    ![t].ops = 1,
                    ![t].gen = [NoGen EXCEPT
                                  !.args = a, !.use_cache = use_cache,
                                  !.max_new_tokens =
                                      OrDefault(a[2], max_new_tokens_env)]]
    /\ Goto(t, "gen_if_cache")
    /\ UNCHANGED <<fieldVars, lastOp, restOfGenConc>>

\* if use_cache: cache_key = self._get_cache_key(...)
ConcKey(t) ==
    /\ pc[t] = "gen_if_cache"
    /\ IF frame[t].gen.use_cache
       THEN SetCall(t, [frame[t].gen EXCEPT
                          !.cache_key = KeyOf(frame[t].gen.args)],
                    "gen_test")
       ELSE SetCall(t, frame[t].gen, "gen_invoke")
    /\ UNCHANGED <<fieldVars, lastOp, restOfGenConc>>

\* if cache_key in self._cache
ConcTest(t) ==
    /\ pc[t] = "gen_test"
    /\ Goto(t, IF frame[t].gen.cache_key \in DictKeys(_cache)
               THEN "gen_hit_load" ELSE "gen_miss_load")
    /\ UNCHANGED <<frame, fieldVars, lastOp, restOfGenConc>>

\* self._cache_hits += 1, the load
ConcHitLoad(t) ==
    /\ pc[t] = "gen_hit_load"
    /\ frame' = [frame EXCEPT ![t].tmp = _cache_hits]
    /\ Goto(t, "gen_hit_store")
    /\ UNCHANGED <<fieldVars, lastOp, restOfGenConc>>

\* self._cache_hits += 1, the store
ConcHitStore(t) ==
    /\ pc[t] = "gen_hit_store"
    /\ _cache_hits' = frame[t].tmp + 1
    /\ Goto(t, "gen_hit_return")
    /\ UNCHANGED <<frame, _cache, _cache_misses, lastOp, restOfGenConc>>

\* return self._cache[cache_key]
ConcHitReturn(t) ==
    /\ pc[t] = "gen_hit_return"
    /\ SetCall(t, [frame[t].gen EXCEPT
                      !.generated_text = DictGet(_cache, frame[t].gen.cache_key),
                      !.source = "cache"],
               "idle")
    /\ UNCHANGED <<fieldVars, lastOp, restOfGenConc>>

\* self._cache_misses += 1, the load
ConcMissLoad(t) ==
    /\ pc[t] = "gen_miss_load"
    /\ frame' = [frame EXCEPT ![t].tmp = _cache_misses]
    /\ Goto(t, "gen_miss_store")
    /\ UNCHANGED <<fieldVars, lastOp, restOfGenConc>>

\* self._cache_misses += 1, the store
ConcMissStore(t) ==
    /\ pc[t] = "gen_miss_store"
    /\ _cache_misses' = frame[t].tmp + 1
    /\ Goto(t, "gen_invoke")
    /\ UNCHANGED <<frame, _cache, _cache_hits, lastOp, restOfGenConc>>

\* whether the backend call with this reply ends in an exception: the call
\* raises, Gemini answers without text, Ollama answers with another status
\* than 200
ReplyFails(reply) ==
    IF kind = "gemini" THEN reply.raises \/ NoText(reply.text)
    ELSE reply.raises # "" \/ reply.status # 200

\* the try block up to "generated_text = ..." (gemini_engine.py:134-158,
\* ollama_engine.py:128-150); an exception leaves generate
ConcInvoke(t, reply) ==
    /\ pc[t] = "gen_invoke"
    /\ IF ReplyFails(reply)
       THEN SetCall(t, [frame[t].gen EXCEPT !.calls = 1, !.source = "error"],
                    "idle")
       ELSE SetCall(t, [frame[t].gen EXCEPT !.calls = 1,
                                            !.generated_text = reply.text],
                    IF frame[t].gen.use_cache THEN "gen_store"
                    ELSE "gen_return")
    /\ UNCHANGED <<fieldVars, lastOp, restOfGenConc>>

\* self._cache[cache_key] = generated_text
ConcStore(t) ==
    /\ pc[t] = "gen_store"
    /\ _cache' = DictSet(_cache, frame[t].gen.cache_key,
                         frame[t].gen.generated_text)
    /\ lastOp' = [NoOp EXCEPT !.op = "store", !.by = t,
                              !.key = frame[t].gen.cache_key]
    /\ Goto(t, "gen_return")
    /\ UNCHANGED <<frame, _cache_hits, _cache_misses, restOfGenConc>>

\* return generated_text
ConcReturn(t) ==
    /\ pc[t] = "gen_return"
    /\ SetCall(t, [frame[t].gen EXCEPT !.source = "backend"], "idle")
    /\ UNCHANGED <<fieldVars, lastOp, restOfGenConc>>

NextGenConc ==
    \E t \in Threads :
        \/ \E a \in reqs, use_cache \in BOOLEAN : ConcCall(t, a, use_cache)
        \/ ConcKey(t)
        \/ ConcTest(t)
        \/ ConcHitLoad(t)
        \/ ConcHitStore(t)
        \/ ConcHitReturn(t)
        \/ ConcMissLoad(t)
        \/ ConcMissStore(t)
        \/ \E reply \in (IF kind = "gemini" THEN GeminiReplies
                          ELSE OllamaReplies) : ConcInvoke(t, reply)
        \/ ConcStore(t)
        \/ ConcReturn(t)

SpecGenConc == InitGenConc /\ [][NextGenConc]_vars

\* ------------------------------------------------------------------------
\* Claims
\* ------------------------------------------------------------------------

\* C1: whenever a put has returned, the total size of the live entries is at
\* most the configured budget.
C1_WithinBudgetAfterPut ==
    lastOp.op = "put" => SumBytes(cache) <= max_cache_size_mb * MiB

\* C2: every eviction removes the keys that became live earliest, in that
\* order, whatever get calls happened in between.
C2_EvictsOldestInserted ==
    lastOp.op = "put" => lastOp.evicted = lastOp.oldest

\* a put has evicted exactly the key that the latest get hit, and left younger
\* entries that were read less recently in the cache
C2_Witness ==
    /\ lastOp.op = "put"
    /\ Len(lastOp.evicted) = 1
    /\ lastOp.hit = lastOp.evicted[1]
    /\ lastOp.live >= 2
    /\ Len(cache) >= 2

\* C3: a generate call in which the scoring call failed on a decode step after
\* the first ends in an error, never in a successful return of the text
\* decoded from the tokens accumulated before the failure.
C3_ScoringFailureIsError ==
    last.failStep >= 1 => last.status = "error"

\* C4 as stated: a generate call with use_cache=true that repeats a request
\* which already succeeded with use_cache=true since the last clear returns
\* the text of that earlier call and invokes the model zero times, whatever
\* calls were made in between.
C4_RepeatIsServedFromCache ==
    (last.use_cache /\ last.repeat) =>
        /\ last.status = "ok"
        /\ last.text = watch.v
        /\ last.calls = 0

\* C4 amended: the same, provided no put has evicted the entry of the earlier
\* call in between (only the NPU engine's kv_cache evicts).
C4_RepeatIsServedUnlessEvicted ==
    (last.use_cache /\ last.repeat /\ ~watch.evicted) =>
        /\ last.status = "ok"
        /\ last.text = watch.v
        /\ last.calls = 0

\* a repeated request was answered from the cache after other generate calls
\* had been made in between
C4_Witness ==
    /\ last.use_cache /\ last.repeat /\ ~watch.evicted /\ watch.others
    /\ last.status = "ok" /\ last.calls = 0 /\ last.text = watch.v
    /\ Len(cache) + Len(_cache) >= 2

\* C5: a generate call with an out-of-range max_tokens, temperature or top_p
\* returns an InvalidRequest error, invokes the model zero times and leaves
\* the cache entries and the hit/miss counters as they were.
C5_InvalidRequestRejected ==
    (last.status \in {"ok", "error"} /\ ~last.valid) =>
        /\ last.status = "error"
        /\ last.error = "InvalidRequest"
        /\ last.calls = 0
        /\ ~last.cacheChanged
        /\ ~last.countersChanged

\* C10: no generate call in which a scoring step failed creates a
\* response-cache entry, so every stored text is the output of a generation
\* that ran without a scoring failure.
C10_OnlyFullGenerationsCached ==
    ~(last.failStep >= 0 /\ last.cacheChanged)

C7_InitBodyRunsOnce ==
    /\ env_api_key => initRuns <= 1
    /\ ~replaced

\* C8: concurrent puts behave as if serialized: no put is left holding an
\* oldest key that another put has already deleted, the size a put uses to
\* decide eviction equals the sum of the sizes of the live entries, and no
\* put fails because of another one.
C8_PutsAsIfSerialized ==
    \A t \in Threads :
        /\ pc[t] \in {"put_size", "put_del"} =>
               frame[t].oldest_key \in DictKeys(cache)
        /\ pc[t] = "put_while" => frame[t].current = SumBytes(cache)
        /\ pc[t] # "raised"

\* C9: once every lookup has completed, hits + misses equals the number of
\* lookups performed.
C9_NoLostCounterUpdate ==
    (\A t \in Threads : pc[t] \in {"idle", "raised"}) =>
        cache_hits + cache_misses = lookups

\* C11 as stated: a generate call with use_cache=false invokes the model or
\* backend whatever the cache holds, and leaves the cache entries and the
\* hit/miss counters as they were, whether it succeeds or fails.
C11_UncachedCallInvokesAndLeavesCache ==
    (last.status \in {"ok", "error"} /\ ~last.use_cache) =>
        /\ last.calls >= 1
        /\ ~last.cacheChanged
        /\ ~last.countersChanged

\* C11 amended: the same, except that an NPU engine without a session
\* (simulation mode) has no model to invoke and builds the placeholder text.
C11_UncachedCallLeavesCache ==
    (last.status \in {"ok", "error"} /\ ~last.use_cache) =>
        /\ last.calls >= 1 \/ (kind = "npu" /\ ~session)
        /\ ~last.cacheChanged
        /\ ~last.countersChanged

\* a request whose response is in the cache was issued again with
\* use_cache=false, and the model or backend was invoked for it
C11_Witness ==
    /\ last.status = "ok" /\ ~last.use_cache /\ last.repeat
    /\ ~watch.evicted
    /\ last.calls >= 1
    /\ Len(cache) + Len(_cache) >= 1

\* C12: the response cache of the Gemini and Ollama engines is bounded as the
\* KV cache is: when a generate call has stored a response, the entries older
\* than the newest one fit in the configured budget (KV_CACHE_SIZE_MB, the
\* only cache budget of the configuration), older entries having been
\* evicted. Sizes are measured as the KV cache measures a text.
C12_ResponseCacheBounded ==
    kind \in {"gemini", "ollama"} =>
        SumBytes([i \in 1..(Len(_cache) - 1) |->
                     [key |-> _cache[i].key,
                      value |-> ArrayOfText(_cache[i].value)]])
            <= max_cache_size_mb * MiB

\* C13: when the backend call of a Gemini or Ollama generate raises, times
\* out or answers with an error status, generate fails with an error and no
\* text, the backend was invoked once and not again, and the response-cache
\* entries are the ones held before the call.
C13_BackendErrorFailsOnce ==
    (kind \in {"gemini", "ollama"} /\ last.backendFailed) =>
        /\ last.status = "error"
        /\ last.text = <<>>
        /\ last.calls <= 1
        /\ ~last.cacheChanged

\* the backend failed for a request while the cache held the response of
\* another request, which is still there
C13_Witness ==
    /\ kind \in {"gemini", "ollama"}
    /\ last.backendFailed /\ last.status = "error" /\ last.calls = 1
    /\ watch.some /\ watch.args # last.args
    /\ Len(_cache) >= 1

\* C14: a generate call with temperature 0 is rejected by validation: it
\* ends in an InvalidRequest error without a cache lookup or a model
\* invocation made with a substituted temperature.
C14_ZeroTemperatureRejected ==
    (last.status \in {"ok", "error"} /\ last.args[3] = Some(0)) =>
        /\ last.status = "error"
        /\ last.error = "InvalidRequest"
        /\ last.calls = 0
        /\ ~last.countersChanged

\* C15: every NPUInferenceEngine.generate call returns; it makes at most
\* max_new_tokens scoring calls, none after a step that sampled the
\* end-of-sequence token, so a call whose first step samples it has made
\* exactly one scoring call.
C15_TerminatesWithinMaxTokens ==
    /\ [](/\ Gen.calls <= Gen.max_new_tokens
          /\ pc[Caller] = "gen_run" => eos_token_id \notin SeqSet(Gen.sampled)
          /\ (/\ pc[Caller] = "idle"
              /\ Gen.sampled # <<>>
              /\ Gen.sampled[1] = eos_token_id) => Gen.calls = 1)
    /\ (pc[Caller] # "idle") ~> (pc[Caller] = "idle")

\* a call whose first decode step sampled the end-of-sequence token has
\* returned after one scoring call, although more steps were allowed
C15_Witness ==
    /\ pc[Caller] = "idle"
    /\ Gen.source = "model"
    /\ Gen.sampled = <<eos_token_id>>
    /\ Gen.calls = 1
    /\ Gen.max_new_tokens >= 2

\* C16: the text returned by a generate call that ran the decode loop without
\* a failure is the decoding of exactly the tokens sampled in that loop (with
\* or without the end-of-sequence token made visible), so that a call whose
\* first step samples the end-of-sequence token returns the string of that
\* one token and the text has one token per scoring call.
C16_TextIsDecodedSamples ==
    (pc[Caller] = "idle" /\ Gen.source = "model" /\ Gen.failStep < 0) =>
        \/ Gen.generated_text = Gen.sampled
        \/ Gen.generated_text = Decode(Gen.sampled)

\* C17: no call of a plan validation or plan adjustment endpoint reads a
\* response from the engine's response cache or stores one into it: the
\* endpoint's generate call makes no lookup and creates no entry.
C17_PlanRoutesBypassCache ==
    (last.route # "" /\ last.status \in {"ok", "error"}) =>
        /\ ~last.use_cache
        /\ ~last.cacheChanged
        /\ ~last.countersChanged

\* C18: on an NPU engine constructed without a session, every generate call
\* succeeds with the placeholder text labelled as simulation mode and makes
\* no model invocation, and health_check and get_model_info report the mode
\* "simulation".
C18_SimulationModeFallback ==
    (kind = "npu" /\ ~session) =>
        /\ (last.route = "" /\ last.status \in {"ok", "error"}) =>
               /\ last.status = "ok"
               /\ last.calls = 0
               /\ last.text # <<>> /\ last.text[1] = simulation_label
        /\ last.route = "health_check" =>
               /\ last.status = "healthy"
               /\ last.mode = "simulation"
               /\ last.calls = 0
               /\ last.text # <<>> /\ last.text[1] = simulation_label
        /\ last.route = "get_model_info" => last.mode = "simulation"

\* an engine without a session answered a repeated request from its cache
\* with the placeholder text
C18_Witness ==
    /\ kind = "npu" /\ ~session
    /\ last.route = "" /\ last.status = "ok" /\ last.hit
    /\ last.text # <<>> /\ last.text[1] = simulation_label
    /\ last.calls = 0

\* C19 as stated: after a clear the cache holds no entry, its size is zero and
\* both counters are zero, and the next generate call with use_cache=true for
\* a request that was cached before the clear (the first call after the clear
\* that uses its fingerprint) is a miss that invokes the model or backend
\* again.
C19_ClearForgetsEverything ==
    /\ last.status = "cleared" =>
           /\ cache = <<>> /\ SumBytes(cache) = 0
           /\ cache_hits = 0 /\ cache_misses = 0
           /\ _cache = <<>> /\ _cache_hits = 0 /\ _cache_misses = 0
    /\ (last.use_cache /\ last.afterClear) =>
           /\ ~last.hit
           /\ last.calls >= 1

\* C19 amended: the same, except that an NPU engine without a session
\* (simulation mode) rebuilds the placeholder text without a model
\* invocation.
C19_ClearForgetsEntries ==
    /\ last.status = "cleared" =>
           /\ cache = <<>> /\ SumBytes(cache) = 0
           /\ cache_hits = 0 /\ cache_misses = 0
           /\ _cache = <<>> /\ _cache_hits = 0 /\ _cache_misses = 0
    /\ (last.use_cache /\ last.afterClear) =>
           /\ ~last.hit
           /\ last.calls >= 1 \/ (kind = "npu" /\ ~session)

\* a request that was cached before a clear was issued again with
\* use_cache=true after it, missed and invoked the model or backend
C19_Witness ==
    /\ last.use_cache /\ last.afterClear
    /\ ~last.hit /\ last.countersChanged
    /\ last.status = "ok" /\ last.calls >= 1

\* C20: while the engine is constructed and used by concurrent callers, and
\* nobody calls clear, every step leaves each response-cache counter as it
\* was or raises it by one: none is lowered or reset.
C20_CountersOnlyStepUp ==
    [][/\ _cache_hits' - _cache_hits \in {0, 1}
       /\ _cache_misses' - _cache_misses \in {0, 1}]_vars

\* C21: health_check leaves the cache entries and the hit/miss counters as
\* they were and reports "healthy" exactly when its test generation, and
\* every request made for it, succeeded, and "unhealthy" with the error when
\* one failed.
C21_HealthCheckReportsOutcome ==
    last.route = "health_check" =>
        /\ ~last.cacheChanged /\ ~last.countersChanged
        /\ last.status \in {"healthy", "unhealthy"}
        /\ last.status = "healthy" <=> ~last.backendFailed
        /\ last.status = "unhealthy" => last.error # ""

\* what C22 says of one argument: it is unset, or of the right type and
\* within lo < x <= hi
InRange(x, lo, hi, types) ==
    x = PyNone \/ (x.type \in types /\ lo < x.v /\ x.v <= hi)

\* C22: validate_generation_params accepts exactly when every supplied
\* argument is in range (max_new_tokens an integer in 1..2048,
\* 0 < temperature <= 2.0, 0 < top_p <= 1), and on rejection reports the
\* error of the first failing check in the order max_new_tokens,
\* temperature, top_p.
C22_AcceptsExactlyInRange ==
    last.route = "validate_generation_params" =>
        LET okTokens == InRange(last.args[2], 0, 2048, {"int"})
            okTemperature == InRange(last.args[3], 0, 20, {"int", "float"})
            okTopP == InRange(last.args[4], 0, 10, {"int", "float"})
        IN  /\ last.valid <=> (okTokens /\ okTemperature /\ okTopP)
            /\ ~okTokens =>
                   last.error \in {"max_new_tokens must be a positive integer",
                                   "max_new_tokens cannot exceed 2048"}
            /\ (okTokens /\ ~okTemperature) =>
                   last.error \in
                       {"temperature must be a positive number",
                        "temperature should not exceed 2.0 for stable generation"}
            /\ (okTokens /\ okTemperature /\ ~okTopP) =>
                   last.error \in {"top_p must be a number",
                                   "top_p must be between 0 and 1"}

\* the vocabulary size of the last _sample_token call, the first k tokens in
\* the descending order it used, and their cumulative probability
VocabSize == Cardinality(DOMAIN last.sample.probs)
Prefix(k) == {last.sample.sorted_indices[i] : i \in Range(k)}
RECURSIVE PrefixMass(_)
PrefixMass(k) ==
    IF k = 0 THEN 0
    ELSE PrefixMass(k - 1) + last.sample.probs[last.sample.sorted_indices[k - 1]]
\* the prefix lengths whose cumulative probability is at least top_p
Reaching == {k \in 1..VocabSize : PrefixMass(k) >= last.sample.top_p}
Least(S) == CHOOSE k \in S : \A m \in S : k <= m

OverwritingPut == lastOp.op = "put" /\ lastOp.rank > Len(lastOp.evicted)

\* C26 as stated: a put on a key that is present and is not evicted during
\* that put replaces the value in place: the number of entries is
\* unchanged and the key keeps its insertion rank for later eviction.
C26_OverwriteKeepsCountAndRank ==
    OverwritingPut =>
        /\ DictGet(cache, lastOp.key) = lastOp.value
        /\ Len(cache) = lastOp.live
        /\ DictIndex(cache, lastOp.key) = lastOp.rank - Len(lastOp.evicted)
        /\ fifo[DictIndex(cache, lastOp.key)] = lastOp.key

\* C26, amended: such a put replaces the value in place: the number of
\* entries drops only by the older entries the put evicted, and the key
\* keeps its insertion rank among the entries that remain.
C26_OverwriteKeepsRank ==
    OverwritingPut =>
        /\ DictGet(cache, lastOp.key) = lastOp.value
        /\ Len(cache) = lastOp.live - Len(lastOp.evicted)
        /\ DictIndex(cache, lastOp.key) = lastOp.rank - Len(lastOp.evicted)
        /\ fifo[DictIndex(cache, lastOp.key)] = lastOp.key

\* a put overwrote a key that was neither the oldest nor the newest entry,
\* with a different array, while an older entry was evicted
C26_Witness ==
    /\ OverwritingPut
    /\ Len(lastOp.evicted) = 1
    /\ lastOp.rank = 2
    /\ lastOp.live = 3
    /\ DictIndex(cache, lastOp.key) = 1
    /\ Len(cache) = 2

\* the last generate call differs from the watched request in top_p only
SameButTopP ==
    /\ last.args[1] = watch.args[1]
    /\ last.args[2] = watch.args[2]
    /\ last.args[3] = watch.args[3]
    /\ last.args[4] # watch.args[4]

\* C27: on a Gemini or Ollama engine, after a successful cached generate, a
\* generate with use_cache=true for the same prompt, max_tokens and
\* temperature but another top_p (and no clear in between) returns the
\* cached text without invoking the backend.
C27_TopPNotInFingerprint ==
    (/\ kind \in {"gemini", "ollama"}
     /\ watch.some /\ ~watch.cleared
     /\ last.route = "" /\ last.status \in {"ok", "error"}
     /\ last.use_cache
     /\ SameButTopP) =>
        /\ last.status = "ok"
        /\ last.hit
        /\ last.text = watch.v
        /\ last.calls = 0

\* a Gemini engine answered a request from the entry stored for the same
\* request with another top_p
C27_Witness ==
    /\ kind = "gemini"
    /\ watch.some /\ ~watch.cleared
    /\ last.route = "" /\ last.status = "ok" /\ last.use_cache
    /\ SameButTopP
    /\ last.hit /\ last.calls = 0
    /\ last.text = watch.v

\* every thread has made its call with use_cache=true and the same
\* arguments, and every call has returned a text
BothReturned ==
    \A t \in Threads :
        /\ pc[t] = "idle" /\ frame[t].ops = 1
        /\ frame[t].gen.use_cache
        /\ frame[t].gen.source \in {"cache", "backend"}
        /\ frame[t].gen.args = frame[1].gen.args

\* C28: once two concurrent generate calls with identical parameters and
\* use_cache=true on one Gemini or Ollama engine, started against an empty
\* cache, have both completed successfully, the cache holds exactly one
\* entry for their fingerprint, and its value is the text returned to the
\* caller that stored last.
C28_LastStoreWins ==
    BothReturned =>
        /\ Cardinality({i \in 1..Len(_cache) :
                           _cache[i].key = frame[1].gen.cache_key}) = 1
        /\ lastOp.op = "store"
        /\ lastOp.key = frame[1].gen.cache_key
        /\ frame[lastOp.by].gen.source = "backend"
        /\ DictGet(_cache, frame[1].gen.cache_key) =
               frame[lastOp.by].gen.generated_text

\* both calls missed and both invoked the backend, which gave them
\* different texts; the cache holds the text of the one that stored last
C28_Witness ==
    /\ BothReturned
    /\ \A t \in Threads : frame[t].gen.calls = 1
    /\ _cache_misses = 2
    /\ frame[1].gen.generated_text # frame[2].gen.generated_text
    /\ lastOp.by = 2
    /\ DictGet(_cache, frame[1].gen.cache_key) = frame[2].gen.generated_text

\* an access has returned the engine to thread t
Returned(t) == pc[t] \in {"done", "used"}

\* C29: when initialization raises (GEMINI_API_KEY is missing) the failing
\* access returns no engine and leaves the engine marked uninitialized;
\* every access that finds the engine marked uninitialized runs the
\* initialization again; and an access returns an engine only when an
\* initialization has run to completion.
C29_FailedInitStaysUninitialized ==
    /\ [](/\ \A t \in Threads :
               Returned(t) => _initialized[frame[t].self] = "True"
          /\ ~env_api_key =>
                 /\ \A t \in Threads : ~Returned(t)
                 /\ \A o \in Threads : _initialized[o] # "True")
    /\ [][\A t \in Threads :
             /\ (pc[t] # "raised" /\ pc'[t] = "raised") =>
                    _initialized' = _initialized
             /\ (/\ pc[t] = "init_check" /\ pc'[t] # "init_check"
                 /\ _initialized[frame[t].self] = "False") =>
                    (pc'[t] = "init_config" /\ initRuns' = initRuns + 1)]_vars

\* without GEMINI_API_KEY every access has raised, each of them ran the
\* initialization, and the engine is still marked uninitialized
C29_Witness ==
    /\ ~env_api_key
    /\ \A t \in Threads : pc[t] = "raised"
    /\ initRuns = NumThreads
    /\ _instance # 0 /\ _initialized[_instance] = "False"

\* C30: every value stored in the response cache of a GeminiEngine is a
\* non-empty text; a backend reply with empty text makes generate fail and
\* stores nothing, and no successful generate returns the empty string.
C30_NoEmptyTextCachedOrReturned ==
    kind = "gemini" =>
        /\ \A i \in 1..Len(_cache) : _cache[i].value # <<>>
        /\ (last.route = "" /\ last.status = "ok") => last.text # <<>>
        /\ (last.route = "" /\ last.error = "RuntimeError") =>
               (last.status = "error" /\ ~last.cacheChanged)

\* a cached generate on a Gemini engine that holds an entry got an empty
\* reply from the backend and failed
C30_Witness ==
    /\ kind = "gemini"
    /\ Len(_cache) >= 1
    /\ last.route = "" /\ last.use_cache
    /\ last.status = "error" /\ last.error = "RuntimeError"
    /\ last.calls = 1
    /\ ~last.cacheChanged
====
